---- MODULE Spec2Model ----
(***************************************************************************)
(* Verification model of the dataset validation -> preprocessing ->        *)
(* label-safe training pipeline of ModelMind (backend/app).                *)
(*                                                                         *)
(* Seven specifications share this module:                                 *)
(*   SpecEnc  the SafeLabelEncoder object (utils/safe_label_encoding.py)   *)
(*   SpecVal  the DataValidator and the two problem-type classifiers       *)
(*            (utils/data_validation.py, services/training_service.py)     *)
(*   SpecRun  one training run: preprocess_data followed by the manual or  *)
(*            the automated branch of train_model                          *)
(*   SpecSplit step 4 of preprocess_data (the split and its retry) on the  *)
(*            row and class counts of a cleaned table                      *)
(*   SpecPipe DataPreprocessing.build_pipeline on a feature table          *)
(*   SpecJobs two train requests in flight: error mapping, persistence     *)
(*            order and the state the requests share                       *)
(*   SpecName generate_unique_model_name (SpecNameFair: with fairness)     *)
(* A specification leaves the variables of the others at their idle        *)
(* values.                                                                 *)
(***************************************************************************)
EXTENDS Integers, Sequences, FiniteSets, TLC

VARIABLES
    enc,      \* the SafeLabelEncoder instance (its attributes)
    call,     \* the last call made on the encoder and what it returned
    evalres,  \* the last _classification_metrics evaluation of a test batch
    df,       \* the table handed to the validator
    vres,     \* the last validator call and what it returned
    run,      \* the state of one training run
    pipe,     \* the feature table handed to build_pipeline and its result
    gen,      \* one generate_unique_model_name call
    jobs,     \* the train requests in flight, one record per request
    world     \* what the requests share: temp directory, storage, database

vars == <<enc, call, evalres, df, vres, run, pipe, gen, jobs, world>>

(***************************************************************************)
(* Bounds                                                                  *)
(***************************************************************************)
\* labels are 1..MaxLabel in the order np.unique sorts them; 0 is NaN/None
MaxLabel == 3
\* longest training batch passed to fit_transform
MaxFitLen == 3
\* longest batch passed to transform
MaxLen == 3
\* longest array of arbitrary integers passed to inverse_transform
MaxCodes == 1
\* cap on the length of the accumulated unseen_labels_ list
MaxUnseen == 1

NoLabel == 0
Labels == 1..MaxLabel
Batches == UNION {[1..n -> 0..MaxLabel] : n \in 0..MaxLen}
FitBatches == UNION {[1..n -> 0..MaxLabel] : n \in 0..MaxFitLen}
Codes == (0 - 3)..(MaxLabel + 1)
CodeArrays == UNION {[1..n -> Codes] : n \in 0..MaxCodes}
Strategies == {"use_encoded_value", "use_mode", "error"}

(***************************************************************************)
(* Helpers on sequences and sets of integers                               *)
(***************************************************************************)
Range(s) == {s[i] : i \in 1..Len(s)}

RECURSIVE SortedSeq(_)
\* np.unique: the distinct values in ascending order
SortedSeq(S) ==
    IF S = {} THEN <<>>
    ELSE LET m == CHOOSE x \in S : \A z \in S : x <= z
         IN <<m>> \o SortedSeq(S \ {m})

\* position of x in the 0-based array s
IndexOf(s, x) == (CHOOSE i \in 1..Len(s) : s[i] = x) - 1

Count(s, x) == Cardinality({i \in 1..Len(s) : s[i] = x})

\* pd.isna(label)
IsNa(label) == label = NoLabel

(***************************************************************************)
(* SafeLabelEncoder                                                        *)
(***************************************************************************)
\* SafeLabelEncoder.__init__: unknown_value is None at every construction
\* site of the repository (safe_encode_labels), hence the default -1
SafeLabelEncoder_init(handle_unknown) ==
    [handle_unknown |-> handle_unknown,
     unknown_value  |-> 0 - 1,
     fitted         |-> FALSE,
     classes_       |-> <<>>,
     mode_class_    |-> NoLabel,
     unseen_labels_ |-> <<>>]

\* y_array[~pd.isna(y_array)]
DropNa(y) == SelectSeq(y, LAMBDA l : ~IsNa(l))

\* unique[np.argmax(counts)]: the first of the most frequent classes
ModeOf(y_clean) ==
    CHOOSE m \in Range(y_clean) :
        /\ \A l \in Range(y_clean) : Count(y_clean, l) <= Count(y_clean, m)
        /\ \A l \in Range(y_clean) :
              Count(y_clean, l) = Count(y_clean, m) => m <= l

NoStats ==
    [total_samples |-> 0, unseen_count |-> 0, unseen_labels |-> <<>>,
     unseen_percentage |-> <<0, 1>>, strategy_used |-> "none"]

\* what a call gives back: either it raised (at loop index raisedAt, 0-based,
\* -1 when outside the loop) or it returned encoded / decoded / stats
Raised(e, at) ==
    [raised |-> TRUE, raisedAt |-> at, enc |-> e, encoded |-> <<>>,
     decoded |-> <<>>, stats |-> NoStats]

Returned(e, encoded, decoded, stats) ==
    [raised |-> FALSE, raisedAt |-> 0 - 1, enc |-> e, encoded |-> encoded,
     decoded |-> decoded, stats |-> stats]

\* SafeLabelEncoder.fit
SafeLabelEncoder_fit(e, y) ==
    LET y_clean == DropNa(y)
    IN IF Len(y_clean) = 0
       THEN Raised(e, 0 - 1)
       ELSE Returned([e EXCEPT !.fitted = TRUE,
                               !.classes_ = SortedSeq(Range(y_clean)),
                               !.mode_class_ = ModeOf(y_clean)],
                     <<>>, <<>>, NoStats)

\* label not in self.classes_
NotInClasses(e, label) == label \notin Range(e.classes_)

\* unseen_mask[i]: set for NaN and for labels absent from the vocabulary
UnseenMask(e, y) ==
    [i \in 1..Len(y) |-> IsNa(y[i]) \/ NotInClasses(e, y[i])]

\* EncodeLabel with the 'use_mode' branch lost: an absent label falls through
\* to the sentinel
EncodeLabel_noModeBranch(e, label) ==
    IF IsNa(label) THEN e.unknown_value
    ELSE IF NotInClasses(e, label)
         THEN e.unknown_value
         ELSE IndexOf(e.classes_, label)

\* EncodeLabel with the NaN test lost: a NaN is handled as an absent label
EncodeLabel_nullAsAbsent(e, label) ==
    IF IsNa(label) \/ NotInClasses(e, label)
    THEN IF e.handle_unknown = "use_mode"
         THEN IndexOf(e.classes_, e.mode_class_)
         ELSE e.unknown_value
    ELSE IndexOf(e.classes_, label)

\* the body of the loop of transform for one label that does not raise
EncodeLabel(e, label) ==
    IF IsNa(label) THEN e.unknown_value
    ELSE IF NotInClasses(e, label)
         THEN IF e.handle_unknown = "use_mode"
              THEN IndexOf(e.classes_, e.mode_class_)
              ELSE e.unknown_value
         ELSE IndexOf(e.classes_, label)

\* RaiseIndex with the raise for absent labels lost: only a NaN raises
RaiseIndex_nanOnly(e, y) ==
    LET bad == {i \in 1..Len(y) : IsNa(y[i])}
    IN IF e.handle_unknown = "error" /\ bad # {}
       THEN CHOOSE i \in bad : \A j \in bad : i <= j
       ELSE 0

\* the loop index (1-based here) at which transform raises under 'error':
\* the first NaN or absent label; 0 when the loop completes
RaiseIndex(e, y) ==
    LET bad == {i \in 1..Len(y) : IsNa(y[i]) \/ NotInClasses(e, y[i])}
    IN IF e.handle_unknown = "error" /\ bad # {}
       THEN CHOOSE i \in bad : \A j \in bad : i <= j
       ELSE 0

\* np.unique([l for l in unseen_labels if not pd.isna(l)])
UniqueUnseen(e, y) ==
    SortedSeq({y[i] : i \in {j \in 1..Len(y) :
                                ~IsNa(y[j]) /\ NotInClasses(e, y[j])}})

\* UnseenCount counting the absent labels only, not the NaN positions
UnseenCount_absentOnly(e, y) ==
    Cardinality({i \in 1..Len(y) : ~IsNa(y[i]) /\ NotInClasses(e, y[i])})

\* unseen_mask.sum()
UnseenCount(e, y) == Cardinality({i \in 1..Len(y) : UnseenMask(e, y)[i]})

\* transform_stats; unseen_percentage is the pair <<100 * count, total>>
TransformStats(e, y) ==
    LET cnt == UnseenCount(e, y)
    IN [total_samples     |-> Len(y),
        unseen_count      |-> cnt,
        unseen_labels     |-> IF cnt > 0 THEN UniqueUnseen(e, y) ELSE <<>>,
        unseen_percentage |-> <<100 * cnt, Len(y)>>,
        strategy_used     |-> e.handle_unknown]

\* transform learning the labels it meets: the unseen labels of a batch are
\* added to the vocabulary
SafeLabelEncoder_transform_learns(e, y) ==
    LET at == RaiseIndex(e, y)
        stats == TransformStats(e, y)
    IN IF ~e.fitted THEN Raised(e, 0 - 1)
       ELSE IF at # 0 THEN Raised(e, at - 1)
       ELSE Returned(
               IF stats.unseen_count > 0
               THEN [e EXCEPT !.unseen_labels_ = @ \o stats.unseen_labels,
                              !.classes_ =
                                  SortedSeq(Range(@) \cup Range(stats.unseen_labels))]
               ELSE e,
               [i \in 1..Len(y) |-> EncodeLabel(e, y[i])],
               <<>>,
               stats)

\* SafeLabelEncoder.transform
SafeLabelEncoder_transform(e, y) ==
    LET at == RaiseIndex(e, y)
        stats == TransformStats(e, y)
    IN IF ~e.fitted THEN Raised(e, 0 - 1)
       ELSE IF at # 0 THEN Raised(e, at - 1)
       ELSE Returned(
               IF stats.unseen_count > 0
               THEN [e EXCEPT !.unseen_labels_ = @ \o stats.unseen_labels]
               ELSE e,
               [i \in 1..Len(y) |-> EncodeLabel(e, y[i])],
               <<>>,
               stats)

\* SafeLabelEncoder.fit_transform
SafeLabelEncoder_fit_transform(e, y) ==
    LET f == SafeLabelEncoder_fit(e, y)
    IN IF f.raised THEN f ELSE SafeLabelEncoder_transform(f.enc, y)

\* DecodeValue with the lower range check off by one (<= 0 for < 0)
DecodeValue_lowerOffByOne(e, encoded_val) ==
    IF encoded_val = e.unknown_value
    THEN [k |-> "UNKNOWN", v |-> e.unknown_value]
    ELSE IF encoded_val <= 0 \/ encoded_val >= Len(e.classes_)
         THEN [k |-> "INVALID", v |-> encoded_val]
         ELSE [k |-> "label", v |-> e.classes_[encoded_val + 1]]

\* DecodeValue with the sentinel test lost: the sentinel is an invalid index
DecodeValue_noSentinel(e, encoded_val) ==
    IF encoded_val < 0 \/ encoded_val >= Len(e.classes_)
    THEN [k |-> "INVALID", v |-> encoded_val]
    ELSE [k |-> "label", v |-> e.classes_[encoded_val + 1]]

\* one element of inverse_transform
DecodeValue(e, encoded_val) ==
    IF encoded_val = e.unknown_value
    THEN [k |-> "UNKNOWN", v |-> e.unknown_value]
    ELSE IF encoded_val < 0 \/ encoded_val >= Len(e.classes_)
         THEN [k |-> "INVALID", v |-> encoded_val]
         ELSE [k |-> "label", v |-> e.classes_[encoded_val + 1]]

\* len(self.classes_) is evaluated for a value that is neither the sentinel
\* nor negative; classes_ is None before fit and len(None) raises TypeError
InverseRaiseIndex(e, codes) ==
    IF ~e.fitted /\ \E i \in 1..Len(codes) :
                       codes[i] # e.unknown_value /\ codes[i] >= 0
    THEN CHOOSE i \in 1..Len(codes) :
            /\ codes[i] # e.unknown_value /\ codes[i] >= 0
            /\ \A j \in 1..(i - 1) :
                  ~(codes[j] # e.unknown_value /\ codes[j] >= 0)
    ELSE 0

\* SafeLabelEncoder.inverse_transform
SafeLabelEncoder_inverse_transform(e, codes) ==
    IF InverseRaiseIndex(e, codes) # 0
    THEN Raised(e, InverseRaiseIndex(e, codes) - 1)
    ELSE Returned(e, <<>>,
                  [i \in 1..Len(codes) |-> DecodeValue(e, codes[i])],
                  NoStats)

(***************************************************************************)
(* Tables.  A table is a set of column names and a set of row groups; a    *)
(* group stands for n rows and gives, per column, the kind of its cells    *)
(* and the number u of distinct values its n rows cycle through (u <= n,   *)
(* u = 1 for null).  Values of different groups of a column are distinct.  *)
(* Kinds: "null" (NaN), "int" (an integral number), "flt" (a number with a *)
(* fractional part), "str" (a string that is neither a number nor a date). *)
(* Every quantity the validator computes (row, null and unique counts,     *)
(* conversion rates) is a sum over the groups.  astype_keeps_na is the      *)
(* pandas build the table lives in (see AsTypeStr).                        *)
(***************************************************************************)
RECURSIVE SumRows(_)
\* the number of rows of a set of groups
SumRows(S) ==
    IF S = {} THEN 0
    ELSE LET g == CHOOSE x \in S : TRUE
         IN g.n + SumRows(S \ {g})

RECURSIVE SumUnique(_, _)
\* the number of distinct values of column c in a set of groups
SumUnique(S, c) ==
    IF S = {} THEN 0
    ELSE LET g == CHOOSE x \in S : TRUE
         IN g.cells[c].u + SumUnique(S \ {g}, c)

NullCell == [k |-> "null", u |-> 1]

\* len(df)
NRows(groups) == SumRows(groups)

\* df.empty: no rows or no columns
IsEmpty(t) == t.cols = {} \/ NRows(t.groups) = 0

\* series.isna().sum()
NullCount(t, c) == SumRows({g \in t.groups : g.cells[c].k = "null"})

\* series.dropna()
NonNullGroups(t, c) == {g \in t.groups : g.cells[c].k # "null"}

NonNullCount(t, c) == NRows(NonNullGroups(t, c))

\* non_null.nunique()
UniqueCount(t, c) == SumUnique(NonNullGroups(t, c), c)

\* pd.to_numeric(series, errors='coerce').dropna(): the cells that convert
NumericCount(t, c) ==
    SumRows({g \in t.groups : g.cells[c].k \in {"int", "flt"}})

\* np.allclose(numeric, numeric.astype(int))
AllIntegers(t, c) == \A g \in t.groups : g.cells[c].k # "flt"

\* str(series.dtype) of a column parsed by read_csv
DType(t, c) ==
    IF \E g \in t.groups : g.cells[c].k = "str" THEN "object"
    ELSE IF \E g \in t.groups : g.cells[c].k \in {"flt", "null"} THEN "float64"
    ELSE "int64"

(***************************************************************************)
(* DataValidator (default settings of DataValidator.__init__)              *)
(***************************************************************************)
\* max_null_ratio = 0.95, as the fraction MAX_NULL_NUM / MAX_NULL_DEN
MAX_NULL_NUM == 19
MAX_NULL_DEN == 20
\* min_unique_for_regression
MIN_UNIQUE_FOR_REGRESSION == 10
\* the row minimum of the final validation
MIN_VALID_ROWS == 10
\* unique-count limit of _clean_target_column
DISCRETE_TARGET_LIMIT == 20

\* NullThresholdReached with a strict comparison (> for >=)
NullThresholdReached_strict(t, c) ==
    NullCount(t, c) * MAX_NULL_DEN > MAX_NULL_NUM * NRows(t.groups)

\* null_pct >= self.max_null_ratio * 100
NullThresholdReached(t, c) ==
    NullCount(t, c) * MAX_NULL_DEN >= MAX_NULL_NUM * NRows(t.groups)

\* DataValidator._infer_column_type on the non-null values of column c:
\* <<inferred_type, has_mixed_types, coerce_to_dtype>>.  pd.to_datetime
\* (errors='raise') raises on a "str" cell, and a column that fails the 0.8
\* conversion rate holds one, so 'datetime' is never returned here.
InferColumnType(t, c) ==
    LET n_non_null == NonNullCount(t, c)
        n_numeric  == NumericCount(t, c)
        n_unique   == UniqueCount(t, c)
    IN IF n_non_null = 0 THEN <<"invalid", FALSE, "None">>
       ELSE IF 5 * n_numeric > 4 * n_non_null
       THEN <<"numeric", n_numeric < n_non_null,
              IF AllIntegers(t, c) THEN "int64" ELSE "float64">>
       ELSE IF 2 * n_unique < n_non_null \/ n_unique < 50
       THEN <<"categorical", FALSE, "object">>
       ELSE <<"text", FALSE, "object">>

NoHealth ==
    [name |-> "", original_dtype |-> "", inferred_type |-> "", null_count |-> 0,
     n_total |-> 0, unique_count |-> 0, has_mixed_types |-> FALSE,
     issues |-> {}, recommended_action |-> "", coerce_to_dtype |-> "None",
     type_inference_ran |-> FALSE]

\* the action of _analyze_column with the unique-count test off by one
RecommendedAction_noValueOnly(reached, unique_count, coerce_to, dtype) ==
    IF reached \/ unique_count < 1 THEN "drop"
    ELSE IF coerce_to # "None" /\ coerce_to # dtype THEN "coerce"
    ELSE "keep"

\* _analyze_column, "Determine action": drop, else coerce, else keep
RecommendedAction(reached, unique_count, coerce_to, dtype) ==
    IF reached \/ unique_count <= 1 THEN "drop"
    ELSE IF coerce_to # "None" /\ coerce_to # dtype THEN "coerce"
    ELSE "keep"

\* DataValidator._analyze_column.  null_percentage is null_count / n_total;
\* type_inference_ran records whether _infer_column_type was called.
AnalyzeColumn(t, c) ==
    LET n_total      == NRows(t.groups)
        null_count   == NullCount(t, c)
        n_non_null   == NonNullCount(t, c)
        unique_count == UniqueCount(t, c)
        reached      == NullThresholdReached(t, c)
        dtype        == DType(t, c)
    IN IF reached
       THEN [name |-> c, original_dtype |-> dtype,
             inferred_type |-> "invalid", null_count |-> null_count,
             n_total |-> n_total, unique_count |-> unique_count,
             has_mixed_types |-> FALSE, issues |-> {"null values"},
             recommended_action |-> "drop", coerce_to_dtype |-> "None",
             type_inference_ran |-> FALSE]
       ELSE LET ty == InferColumnType(t, c)
            IN [name |-> c, original_dtype |-> dtype,
                inferred_type |-> ty[1], null_count |-> null_count,
                n_total |-> n_total, unique_count |-> unique_count,
                has_mixed_types |-> ty[2],
                issues |->
                   (IF unique_count <= 1 /\ n_non_null > 0
                    THEN {"zero variance"} ELSE {})
                   \cup (IF ty[1] = "categorical"
                            /\ MAX_NULL_DEN * unique_count > MAX_NULL_NUM * n_non_null
                         THEN {"high cardinality"} ELSE {})
                   \cup (IF ty[2] THEN {"mixed types"} ELSE {}),
                recommended_action |->
                   RecommendedAction(reached, unique_count, ty[3], dtype),
                coerce_to_dtype |-> ty[3],
                type_inference_ran |-> TRUE]

\* DataValidator._infer_problem_type without the cardinality-ratio rule
DataValidator_infer_problem_type_noRatio(t, c, health) ==
    IF NonNullCount(t, c) = 0 THEN "classification"
    ELSE IF health.inferred_type \in {"categorical", "text"}
    THEN "classification"
    ELSE IF health.inferred_type = "numeric"
    THEN IF health.unique_count < MIN_UNIQUE_FOR_REGRESSION /\ AllIntegers(t, c)
         THEN "classification"
         ELSE "regression"
    ELSE "classification"

\* DataValidator._infer_problem_type(df[c], health)
DataValidator_infer_problem_type(t, c, health) ==
    IF NonNullCount(t, c) = 0 THEN "classification"
    ELSE IF health.inferred_type \in {"categorical", "text"}
    THEN "classification"
    ELSE IF health.inferred_type = "numeric"
    THEN IF health.unique_count < MIN_UNIQUE_FOR_REGRESSION /\ AllIntegers(t, c)
         THEN "classification"
         ELSE IF 20 * health.unique_count < NonNullCount(t, c)
         THEN "classification"
         ELSE "regression"
    ELSE "classification"

\* ModelTrainer._infer_problem_type(y) on the label vector y = column c
ModelTrainer_infer_problem_type(t, c) ==
    LET n_unique  == UniqueCount(t, c)
        n_samples == NRows(t.groups)
        has_floats == ~AllIntegers(t, c)
    IN IF DType(t, c) = "object" THEN "classification"
       ELSE IF n_unique < 20 /\ 20 * n_unique < n_samples /\ ~has_floats
       THEN "classification"
       ELSE "regression"

\* series.astype(str): every value becomes a string; a missing value becomes
\* the string 'nan' (pandas 1 and 2) or stays missing (pandas 3: keeps_na)
AsTypeStr(cell, keeps_na) ==
    IF cell.k = "null" /\ keeps_na THEN cell ELSE [k |-> "str", u |-> cell.u]

\* pd.to_numeric(series, errors='coerce'): a string that is no number -> NaN
ToNumericCoerce(cell) == IF cell.k = "str" THEN NullCell ELSE cell

\* DataValidator._coerce_column, cell by cell
CoerceCell(cell, target_dtype, keeps_na) ==
    IF target_dtype \in {"int64", "float64"} THEN ToNumericCoerce(cell)
    ELSE IF target_dtype = "object" THEN AsTypeStr(cell, keeps_na)
    ELSE cell

\* DataValidator._clean_target_column, cell by cell; nunique is
\* df[target_col].nunique()
CleanTargetCell(cell, health, problem_type, nunique, keeps_na) ==
    IF problem_type = "regression"
    THEN IF health.inferred_type # "numeric" THEN ToNumericCoerce(cell) ELSE cell
    ELSE IF problem_type = "classification"
            /\ health.inferred_type = "numeric"
            /\ nunique < DISCRETE_TARGET_LIMIT
         THEN AsTypeStr(cell, keeps_na)
         ELSE cell

\* the health record of the target after _clean_target_column
CleanTargetHealth(health, problem_type, nunique) ==
    IF problem_type = "regression" /\ health.inferred_type # "numeric"
    THEN [health EXCEPT !.coerce_to_dtype = "float64", !.inferred_type = "numeric"]
    ELSE IF problem_type = "classification"
            /\ health.inferred_type = "numeric"
            /\ nunique < DISCRETE_TARGET_LIMIT
         THEN [health EXCEPT !.inferred_type = "categorical"]
         ELSE health

NoTarget == ""

NoReport ==
    [total_rows |-> 0, total_columns |-> 0, valid_columns |-> {},
     dropped_columns |-> {}, coerced_columns |-> {},
     column_reports |-> [c \in {} |-> NoHealth],
     target_column_health |-> NoHealth, overall_issues |-> {},
     is_valid |-> FALSE, recommended_problem_type |-> "None"]

ValidationRaised(msg) ==
    [raised |-> TRUE, error |-> msg, columns |-> {}, cleaned |-> {},
     report |-> NoReport]

\* steps 1 and 2: the health record of every column
ColumnReports(t) == [c \in t.cols |-> AnalyzeColumn(t, c)]

\* step 3 dropping the coerced columns as well
DroppedCols_coercedToo(t, target_col, reports) ==
    {c \in t.cols \ {target_col} :
        reports[c].recommended_action \in {"drop", "coerce"}}

\* step 3: the non-target columns that are dropped / coerced
DroppedCols(t, target_col, reports) ==
    {c \in t.cols \ {target_col} : reports[c].recommended_action = "drop"}

CoercedCols(t, target_col, reports) ==
    {c \in t.cols \ {target_col} : reports[c].recommended_action = "coerce"}

\* steps 3 and 4: one group of rows after the columns are dropped and coerced
\* and the target is cleaned; src is the input group the rows come from
CleanGroup(t, target_col, problem_type, reports, g) ==
    LET dropped == DroppedCols(t, target_col, reports)
        coerced == CoercedCols(t, target_col, reports)
    IN [n |-> g.n,
        src |-> g,
        cells |->
           [c \in t.cols \ dropped |->
               IF c = target_col
               THEN CleanTargetCell(g.cells[c], reports[c], problem_type,
                                    reports[c].unique_count, t.astype_keeps_na)
               ELSE IF c \in coerced
               THEN CoerceCell(g.cells[c], reports[c].coerce_to_dtype,
                               t.astype_keeps_na)
               ELSE g.cells[c]]]

\* step 5: cleaned_df[~cleaned_df[target_col].isna()]
DropNullTargets(groups, target_col) ==
    IF target_col = NoTarget THEN groups
    ELSE {g \in groups : g.cells[target_col].k # "null"}

\* steps 3 to 5: the rows of cleaned_df
CleanedGroups(t, target_col, problem_type, reports) ==
    DropNullTargets({CleanGroup(t, target_col, problem_type, reports, g) :
                        g \in t.groups},
                    target_col)

\* FinalValidation with the row minimum off by one (<= for <)
FinalValidation_rowsOffByOne(valid_columns, n_rows, target_col) ==
    IF valid_columns = {} THEN "No valid feature columns remain after cleaning"
    ELSE IF target_col # NoTarget /\ n_rows <= MIN_VALID_ROWS
    THEN "insufficient rows"
    ELSE ""

\* step 6: the final validation; "" when it passes
FinalValidation(valid_columns, n_rows, target_col) ==
    IF valid_columns = {} THEN "No valid feature columns remain after cleaning"
    ELSE IF target_col # NoTarget /\ n_rows < MIN_VALID_ROWS
    THEN "insufficient rows"
    ELSE ""

\* DataValidator.validate_and_clean(df, target_col)
DataValidator_validate_and_clean(t, target_col) ==
    IF IsEmpty(t) THEN ValidationRaised("Dataset is empty or None")
    ELSE IF target_col # NoTarget /\ target_col \notin t.cols
    THEN ValidationRaised("Target column not found")
    ELSE
      LET reports == ColumnReports(t)
          problem_type ==
              IF target_col = NoTarget THEN "None"
              ELSE DataValidator_infer_problem_type(t, target_col, reports[target_col])
          cleaned == CleanedGroups(t, target_col, problem_type, reports)
          dropped == DroppedCols(t, target_col, reports)
          columns == t.cols \ dropped
          valid_columns == columns \ {target_col}
          target_health ==
              IF target_col = NoTarget THEN NoHealth
              ELSE CleanTargetHealth(reports[target_col], problem_type,
                                     reports[target_col].unique_count)
          n_rows == NRows(cleaned)
          failure == FinalValidation(valid_columns, n_rows, target_col)
      IN IF failure # "" THEN ValidationRaised(failure)
         ELSE [raised |-> FALSE, error |-> "", columns |-> columns,
               cleaned |-> cleaned,
               report |->
                 [total_rows |-> n_rows,
                  total_columns |-> Cardinality(columns),
                  valid_columns |-> valid_columns,
                  dropped_columns |-> dropped,
                  coerced_columns |-> CoercedCols(t, target_col, reports),
                  column_reports |->
                     [c \in t.cols |->
                        IF c = target_col THEN target_health ELSE reports[c]],
                  target_column_health |-> target_health,
                  overall_issues |->
                     (IF 2 * Cardinality(dropped) > Cardinality(t.cols)
                      THEN {"columns dropped"} ELSE {})
                     \cup (IF 2 * n_rows < NRows(t.groups)
                           THEN {"rows removed"} ELSE {}),
                  is_valid |-> TRUE,
                  recommended_problem_type |-> problem_type]]

(***************************************************************************)
(* ModelTrainer._classification_metrics(y_true, y_pred) on two integer     *)
(* arrays of one length n >= 1.  accuracy is the pair <<hits, n>>.         *)
(* average is "ones" for the one-class shortcut, else "binary" or          *)
(* "weighted"; fallback is set when precision_score raises inside the try  *)
(* (binary averaging on labels that are not {.., 1} or on more than two    *)
(* labels) and the accuracy is returned in place of the three scores.      *)
(***************************************************************************)
\* _classification_metrics counting the classes of the predictions
ClassificationMetrics_onPredictions(y_true, y_pred) ==
    LET n_classes == Cardinality(Range(y_pred))
        present == Range(y_true) \cup Range(y_pred)
        hits == Cardinality({i \in 1..Len(y_true) : y_true[i] = y_pred[i]})
        average == IF n_classes = 1 THEN "ones"
                   ELSE IF n_classes = 2 THEN "binary" ELSE "weighted"
        fallback == average = "binary"
                    /\ (Cardinality(present) > 2 \/ 1 \notin present)
    IN [raised |-> FALSE,
        accuracy |-> <<hits, Len(y_true)>>,
        n_classes |-> n_classes,
        average |-> average,
        fallback |-> fallback,
        scores |-> IF n_classes = 1 THEN "1.0"
                   ELSE IF fallback THEN "accuracy" ELSE "computed",
        predicted |-> Range(y_pred)]

\* scores is what precision, recall and f1_score hold: "1.0", the value
\* computed with the averaging mode, or the accuracy of the fallback;
\* predicted is the set of classes of y_pred
ClassificationMetrics(y_true, y_pred) ==
    LET n_classes == Cardinality(Range(y_true))
        present == Range(y_true) \cup Range(y_pred)
        hits == Cardinality({i \in 1..Len(y_true) : y_true[i] = y_pred[i]})
        average == IF n_classes = 1 THEN "ones"
                   ELSE IF n_classes = 2 THEN "binary" ELSE "weighted"
        fallback == average = "binary"
                    /\ (Cardinality(present) > 2 \/ 1 \notin present)
    IN [raised |-> FALSE,
        accuracy |-> <<hits, Len(y_true)>>,
        n_classes |-> n_classes,
        average |-> average,
        fallback |-> fallback,
        scores |-> IF n_classes = 1 THEN "1.0"
                   ELSE IF fallback THEN "accuracy" ELSE "computed",
        predicted |-> Range(y_pred)]

NoMetrics ==
    [raised |-> FALSE, accuracy |-> <<0, 0>>, n_classes |-> 0,
     average |-> "none", fallback |-> FALSE, scores |-> "none", predicted |-> {}]

\* the predictions of a fitted classifier for n rows: class indices of the
\* training vocabulary (a constant prediction, or the true code shifted by d)
Predictions(e, y_true) ==
    LET k == Len(e.classes_)
    IN {[i \in 1..Len(y_true) |-> c] : c \in 0..(k - 1)}
       \cup {[i \in 1..Len(y_true) |-> (y_true[i] + d) % k] : d \in 0..1}

(***************************************************************************)
(* SpecEnc: one SafeLabelEncoder and the calls made on it                  *)
(***************************************************************************)
NoCall ==
    [op |-> "none", arg |-> <<>>, raised |-> FALSE, raisedAt |-> 0 - 1,
     encoded |-> <<>>, decoded |-> <<>>, stats |-> NoStats,
     of |-> <<>>, ofOp |-> "none"]

CallRecord(op, arg, r, of, ofOp) ==
    [op |-> op, arg |-> arg, raised |-> r.raised, raisedAt |-> r.raisedAt,
     encoded |-> r.encoded, decoded |-> r.decoded, stats |-> r.stats,
     of |-> of, ofOp |-> ofOp]

IdleEnc == SafeLabelEncoder_init("use_mode")
IdleDf == [cols |-> {}, groups |-> {}, astype_keeps_na |-> FALSE]
IdleVres ==
    [op |-> "none", arg |-> "", keeps_na |-> FALSE, raised |-> FALSE,
     error |-> "", columns |-> {},
     cleaned |-> {}, report |-> NoReport, health |-> NoHealth,
     problem_type |-> "None", detected_type |-> "None"]
IdleRun == [pc |-> "idle"]
IdlePipe == [pc |-> "idle"]
IdleGen == [pc |-> "idle"]
IdleJobs == <<>>
IdleWorld == [tmp |-> <<>>, storage |-> <<>>, models |-> {}, clock |-> 0]

InitEnc ==
    /\ enc \in {SafeLabelEncoder_init(h) : h \in Strategies}
    /\ call = NoCall
    /\ evalres = NoMetrics
    /\ df = IdleDf
    /\ vres = IdleVres
    /\ run = IdleRun
    /\ pipe = IdlePipe
    /\ gen = IdleGen
    /\ jobs = IdleJobs
    /\ world = IdleWorld

\* encoder.fit_transform(y_train): the encoder is fitted once
FitTransform ==
    /\ call = NoCall
    /\ ~enc.fitted
    /\ \E y \in FitBatches :
          LET r == SafeLabelEncoder_fit_transform(enc, y)
          IN /\ enc' = r.enc
             /\ call' = CallRecord("fit_transform", y, r, <<>>, "none")
    /\ UNCHANGED <<evalres, df, vres, run, pipe, gen, jobs, world>>

\* encoder.transform(y); no further batch is transformed once unseen_labels_
\* holds MaxUnseen entries
Transform ==
    /\ call = NoCall
    /\ Len(enc.unseen_labels_) < MaxUnseen
    /\ \E y \in Batches :
          LET r == SafeLabelEncoder_transform(enc, y)
          IN /\ enc' = r.enc
             /\ call' = CallRecord("transform", y, r, <<>>, "none")
    /\ UNCHANGED <<evalres, df, vres, run, pipe, gen, jobs, world>>

\* encoder.transform(y) once more on the batch of the pending transform; of
\* remembers what the first call returned
Retransform ==
    /\ call.op = "transform"
    /\ call.ofOp = "none"
    /\ ~call.raised
    /\ evalres = NoMetrics
    /\ LET r == SafeLabelEncoder_transform(enc, call.arg)
       IN /\ enc' = r.enc
          /\ call' = CallRecord("transform", call.arg, r,
                                <<call.encoded, call.stats>>, "transform")
    /\ UNCHANGED <<evalres, df, vres, run, pipe, gen, jobs, world>>

\* encoder.inverse_transform(codes) on an arbitrary integer array
InverseTransform ==
    /\ call = NoCall
    /\ \E codes \in CodeArrays :
          LET r == SafeLabelEncoder_inverse_transform(enc, codes)
          IN /\ enc' = r.enc
             /\ call' = CallRecord("inverse_transform", codes, r, <<>>, "none")
    /\ UNCHANGED <<evalres, df, vres, run, pipe, gen, jobs, world>>

\* encoder.inverse_transform(encoded) on the array the pending transform or
\* fit_transform returned; of / ofOp remember the labels it was made from
InverseOfEncoded ==
    /\ call.op \in {"transform", "fit_transform"}
    /\ ~call.raised
    /\ evalres = NoMetrics
    /\ LET r == SafeLabelEncoder_inverse_transform(enc, call.encoded)
       IN /\ enc' = r.enc
          /\ call' = CallRecord("inverse_transform", call.encoded, r,
                                call.arg, call.op)
    /\ UNCHANGED <<evalres, df, vres, run, pipe, gen, jobs, world>>

\* trainer._classification_metrics(y_test_encoded, y_pred) on the non-empty
\* batch the pending transform encoded
Evaluate ==
    /\ call.op = "transform"
    /\ ~call.raised
    /\ Len(call.encoded) >= 1
    /\ evalres = NoMetrics
    /\ \E y_pred \in Predictions(enc, call.encoded) :
          evalres' = ClassificationMetrics(call.encoded, y_pred)
    /\ UNCHANGED <<enc, call, df, vres, run, pipe, gen, jobs, world>>

\* the caller takes the result; the encoder is free for the next call
Return ==
    /\ call # NoCall
    /\ call' = NoCall
    /\ evalres' = NoMetrics
    /\ UNCHANGED <<enc, df, vres, run, pipe, gen, jobs, world>>

NextEnc ==
    \/ FitTransform
    \/ Transform
    \/ Retransform
    \/ InverseTransform
    \/ InverseOfEncoded
    \/ Evaluate
    \/ Return

SpecEnc == InitEnc /\ [][NextEnc]_vars

(***************************************************************************)
(* Claims about the SafeLabelEncoder (checked under SpecEnc)               *)
(***************************************************************************)
Vocabulary == Range(enc.classes_)

\* the index np.unique gives a class: the number of smaller classes
ClassIndex(label) == Cardinality({c \in Vocabulary : c < label})

NoNulls(y) == \A i \in 1..Len(y) : y[i] # NoLabel

Absent(label) == label # NoLabel /\ label \notin Vocabulary

\* C6: fit_transform on a non-empty training label vector without nulls
\* returns normally, and inverse_transform of the array it returned gives
\* back the original labels position by position, with no placeholder.
C6_RoundTrip ==
    /\ (call.op = "fit_transform" /\ Len(call.arg) >= 1 /\ NoNulls(call.arg))
          => ~call.raised /\ Len(call.encoded) = Len(call.arg)
    /\ (call.op = "inverse_transform" /\ call.ofOp = "fit_transform"
            /\ Len(call.of) >= 1 /\ NoNulls(call.of))
          => /\ ~call.raised
             /\ Len(call.decoded) = Len(call.of)
             /\ \A i \in 1..Len(call.of) :
                   call.decoded[i] = [k |-> "label", v |-> call.of[i]]

C6_Witness ==
    /\ call.op = "inverse_transform"
    /\ call.ofOp = "fit_transform"
    /\ call.of = <<3, 1, 3>>
    /\ call.decoded[2] = [k |-> "label", v |-> 1]

\* C7: under 'use_mode' a transform never raises on a fitted encoder; every
\* non-null label absent from the vocabulary is encoded as the index of the
\* most frequent training class, every label of the vocabulary as its own
\* index, so every encoded non-null label lies in 0..n_classes-1; and the
\* mode class is a most frequent label of the training batch.
C7_UseMode ==
    /\ (enc.handle_unknown = "use_mode" /\ enc.fitted
            /\ call.op \in {"transform", "fit_transform"})
          => /\ ~call.raised
             /\ Len(call.encoded) = Len(call.arg)
             /\ \A i \in 1..Len(call.arg) :
                   call.arg[i] # NoLabel =>
                      /\ Absent(call.arg[i])
                            => call.encoded[i] = ClassIndex(enc.mode_class_)
                      /\ call.arg[i] \in Vocabulary
                            => call.encoded[i] = ClassIndex(call.arg[i])
                      /\ call.encoded[i] \in 0..(Len(enc.classes_) - 1)
    /\ (call.op = "fit_transform" /\ ~call.raised)
          => /\ enc.mode_class_ \in Vocabulary
             /\ \A l \in Labels :
                   Count(call.arg, l) <= Count(call.arg, enc.mode_class_)

C7_Witness ==
    /\ enc.handle_unknown = "use_mode"
    /\ call.op = "transform"
    /\ enc.classes_ = <<1, 2>>
    /\ enc.mode_class_ = 2
    /\ call.arg = <<3, 1>>
    /\ call.encoded = <<1, 0>>

\* C8: under 'error' a transform of a batch holding a label absent from the
\* fitted vocabulary raises, at the first position whose label is absent (or
\* at a NaN before it), returns neither an encoded array nor statistics, and
\* no metric is computed from the batch.
C8_ErrorRaises ==
    (enc.handle_unknown = "error" /\ enc.fitted /\ call.op = "transform"
        /\ \E i \in 1..Len(call.arg) : Absent(call.arg[i]))
       => LET firstAbsent ==
                 CHOOSE i \in 1..Len(call.arg) :
                    /\ Absent(call.arg[i])
                    /\ \A j \in 1..(i - 1) : ~Absent(call.arg[j])
          IN /\ call.raised
             /\ call.encoded = <<>>
             /\ call.stats = NoStats
             /\ evalres = NoMetrics
             /\ call.raisedAt + 1 <= firstAbsent
             /\ (\A j \in 1..(firstAbsent - 1) : call.arg[j] # NoLabel)
                   => call.raisedAt + 1 = firstAbsent

C8_Witness ==
    /\ enc.handle_unknown = "error"
    /\ enc.fitted
    /\ call.op = "transform"
    /\ Len(call.arg) = 2
    /\ call.arg[1] \in Vocabulary
    /\ Absent(call.arg[2])
    /\ call.raised
    /\ call.raisedAt = 1

\* C9: a transform that returns gives the statistics of that call:
\* unseen_count is the number of positions of the batch whose label is NaN
\* or absent from the vocabulary, unseen_labels the distinct non-null absent
\* labels; and under 'use_mode' a batch with one occurrence of one unseen
\* label and no NaN is encoded without raising, with unseen_count = 1 and
\* class indices only, and its metrics are computed without raising.
C9_PerCallStats ==
    /\ (call.op \in {"transform", "fit_transform"} /\ ~call.raised)
          => /\ call.stats.total_samples = Len(call.arg)
             /\ call.stats.unseen_count =
                   Cardinality({i \in 1..Len(call.arg) :
                                   call.arg[i] = NoLabel \/ Absent(call.arg[i])})
             /\ Range(call.stats.unseen_labels) =
                   {l \in Range(call.arg) : Absent(l)}
             /\ Len(call.stats.unseen_labels) =
                   Cardinality(Range(call.stats.unseen_labels))
    /\ (enc.handle_unknown = "use_mode" /\ enc.fitted /\ call.op = "transform"
            /\ NoNulls(call.arg)
            /\ Cardinality({i \in 1..Len(call.arg) : Absent(call.arg[i])}) = 1)
          => /\ ~call.raised
             /\ call.stats.unseen_count = 1
             /\ \A i \in 1..Len(call.encoded) :
                   call.encoded[i] \in 0..(Len(enc.classes_) - 1)
             /\ evalres # NoMetrics
                   => ~evalres.raised /\ evalres.accuracy[2] = Len(call.arg)

C9_Witness ==
    /\ enc.handle_unknown = "use_mode"
    /\ call.op = "transform"
    /\ Len(call.arg) = 2
    /\ call.arg[1] \in Vocabulary
    /\ Absent(call.arg[2])
    /\ call.stats.unseen_count = 1
    /\ call.stats.unseen_labels = <<call.arg[2]>>
    /\ evalres # NoMetrics
    /\ ~evalres.raised

\* C10: inverse_transform on a fitted encoder never raises on an integer
\* array: the unknown sentinel is rendered as the UNKNOWN placeholder, any
\* other value below 0 or at or above the number of classes as the INVALID
\* placeholder of that value, every other value as the class at that index.
C10_InverseTotal ==
    (call.op = "inverse_transform" /\ enc.fitted)
       => /\ ~call.raised
          /\ Len(call.decoded) = Len(call.arg)
          /\ \A i \in 1..Len(call.arg) :
                LET v == call.arg[i]
                IN IF v = enc.unknown_value
                   THEN call.decoded[i] = [k |-> "UNKNOWN", v |-> enc.unknown_value]
                   ELSE IF v < 0 \/ v >= Len(enc.classes_)
                   THEN call.decoded[i] = [k |-> "INVALID", v |-> v]
                   ELSE /\ call.decoded[i].k = "label"
                        /\ call.decoded[i].v \in Vocabulary
                        /\ ClassIndex(call.decoded[i].v) = v

C10_Witness ==
    /\ call.op = "inverse_transform"
    /\ enc.fitted
    /\ call.ofOp = "none"
    /\ Len(call.arg) = 1
    /\ call.arg[1] = Len(enc.classes_)
    /\ call.decoded = <<[k |-> "INVALID", v |-> Len(enc.classes_)]>>

\* C25: _classification_metrics always returns accuracy; with exactly one
\* class among the evaluation labels precision, recall and f1 are 1.0; with
\* exactly two classes the averaging is 'binary', with more 'weighted'; the
\* classes are counted on the evaluation labels, not on the predictions.
C25_MetricsAveraging ==
    (evalres # NoMetrics) =>
        LET n == Cardinality(Range(call.encoded))
        IN /\ ~evalres.raised
           /\ evalres.accuracy[2] = Len(call.encoded)
           /\ evalres.accuracy[1] \in 0..Len(call.encoded)
           /\ evalres.n_classes = n
           /\ n = 1 => evalres.average = "ones" /\ evalres.scores = "1.0"
           /\ n = 2 => evalres.average = "binary" /\ evalres.scores # "1.0"
           /\ n > 2 => evalres.average = "weighted" /\ evalres.scores = "computed"

\* three classes among the evaluation labels and one among the predictions:
\* weighted averaging
C25_Witness ==
    /\ evalres # NoMetrics
    /\ Cardinality(Range(call.encoded)) = 3
    /\ Cardinality(evalres.predicted) = 1
    /\ evalres.average = "weighted"
    /\ evalres.accuracy = <<1, 3>>

\* the positions of the transformed batch that hold a null label
NullPositions == {i \in 1..Len(call.arg) : call.arg[i] = NoLabel}

\* a transform call on a fitted encoder
TransformOfFitted == call.op = "transform" /\ enc.fitted

\* C26 as stated: transform maps every null label to the unknown sentinel
\* under every strategy, never to a class index and never by raising.
C26_NullToSentinel ==
    TransformOfFitted =>
        \A i \in NullPositions :
            /\ call.raised => call.raisedAt # i - 1
            /\ ~call.raised => call.encoded[i] = enc.unknown_value

\* C26: under 'use_encoded_value' and 'use_mode' transform maps every null
\* label to the unknown sentinel -1, never to a class index and never by
\* raising; under 'error' a batch that holds a null label makes transform
\* raise, at the null or at an absent label before it.
C26_NullToSentinelUnlessError ==
    TransformOfFitted =>
        /\ enc.handle_unknown # "error" =>
              /\ ~call.raised
              /\ \A i \in NullPositions :
                    /\ call.encoded[i] = enc.unknown_value
                    /\ call.encoded[i] = 0 - 1
                    /\ call.encoded[i] \notin 0..(Len(enc.classes_) - 1)
        /\ (enc.handle_unknown = "error" /\ NullPositions # {}) =>
              /\ call.raised
              /\ \A i \in NullPositions : call.raisedAt <= i - 1

\* under 'use_mode' a null label became -1 next to an absent label that
\* became the index of the mode
C26_Witness ==
    /\ TransformOfFitted
    /\ enc.handle_unknown = "use_mode"
    /\ ~call.raised
    /\ Len(call.arg) = 2
    /\ call.arg[1] = NoLabel
    /\ call.arg[2] \notin Range(enc.classes_) \cup {NoLabel}
    /\ call.encoded = <<0 - 1, IndexOf(enc.classes_, enc.mode_class_)>>

\* s is an initial part of t
IsPrefix(s, t) == Len(s) <= Len(t) /\ \A i \in 1..Len(s) : s[i] = t[i]

\* what no call on a fitted encoder changes, and what it may only extend
EncoderFrame ==
    enc.fitted =>
        /\ enc'.fitted
        /\ enc'.classes_ = enc.classes_
        /\ enc'.mode_class_ = enc.mode_class_
        /\ enc'.unknown_value = enc.unknown_value
        /\ enc'.handle_unknown = enc.handle_unknown
        /\ IsPrefix(enc.unseen_labels_, enc'.unseen_labels_)

\* the second transform of a batch returned what the first returned
SameBatchTwice ==
    (call.op = "transform" /\ call.ofOp = "transform" /\ ~call.raised) =>
        /\ call.encoded = call.of[1]
        /\ call.stats = call.of[2]

\* C28: after fit, no transform or inverse_transform call changes the class
\* vocabulary, the mode class or the unknown sentinel; the list of unseen
\* labels only grows; transforming the same batch twice returns the same
\* encoded array and the same per-call statistics.
C28_FittedStateFrozen == [][EncoderFrame]_vars /\ []SameBatchTwice

\* a batch with an unseen label was transformed twice: the list of unseen
\* labels grew both times and the results are the same
C28_Witness ==
    /\ call.op = "transform"
    /\ call.ofOp = "transform"
    /\ ~call.raised
    /\ call.stats.unseen_count = 1
    /\ Len(enc.unseen_labels_) = 2
    /\ enc.unseen_labels_[1] = enc.unseen_labels_[2]
    /\ call.encoded = call.of[1]

(***************************************************************************)
(* SpecVal: one uploaded table and the DataValidator / ModelTrainer        *)
(* operations applied to it                                                *)
(***************************************************************************)
\* most row groups of a table
MaxGroups == 2
\* most distinct values of a label vector
MaxUnique == 21

Kinds == {"int", "flt", "str"}

Cells(c, yc, fc) == [x \in c |-> IF x = "y" THEN yc ELSE fc]

\* two-column tables, target "y" and feature "f": groups of 1, 9 or 10 rows
GroupSizes == {1, MIN_VALID_ROWS - 1, MIN_VALID_ROWS}

TargetCells(n) ==
    {NullCell, [k |-> "int", u |-> IF n > 2 THEN 2 ELSE n]}
       \cup {[k |-> kd, u |-> n] : kd \in Kinds}

\* a feature is missing, integral, or (in a group of 10 rows) a string
FeatureCells(n) ==
    {NullCell, [k |-> "int", u |-> n]}
       \cup (IF n = MIN_VALID_ROWS THEN {[k |-> "str", u |-> n]} ELSE {})

RowGroups ==
    UNION {{[n |-> n, cells |-> Cells({"y", "f"}, yc, fc)] :
               yc \in TargetCells(n), fc \in FeatureCells(n)} : n \in GroupSizes}

RECURSIVE GroupSets(_)
\* the sets of at most k row groups
GroupSets(k) ==
    IF k = 0 THEN {{}}
    ELSE LET P == GroupSets(k - 1)
         IN P \cup {S \cup {g} : S \in P, g \in RowGroups}

UploadedTables ==
    {[cols |-> {"y", "f"}, groups |-> G] : G \in GroupSets(MaxGroups) \ {{}}}

\* one-column tables: a label vector of u distinct values of one kind, each
\* repeated m times, with or without one missing label
Repeats == {1, 2, DISCRETE_TARGET_LIMIT, DISCRETE_TARGET_LIMIT + 1}

LabelVectors ==
    {[cols |-> {"y"},
      groups |-> {[n |-> u * m, cells |-> Cells({"y"}, [k |-> kd, u |-> u], NullCell)]}
                    \cup nulls] :
        u \in 1..MaxUnique, m \in Repeats, kd \in Kinds,
        nulls \in {{}, {[n |-> 1, cells |-> Cells({"y"}, NullCell, NullCell)]}}}

\* one-column tables around the null threshold: a run of missing values and
\* at most two values of one kind
NullRuns == {MAX_NULL_NUM - 1, MAX_NULL_NUM, MAX_NULL_DEN, 2 * MAX_NULL_NUM}

SparseColumns ==
    {[cols |-> {"y"},
      groups |-> {[n |-> a, cells |-> Cells({"y"}, NullCell, NullCell)]} \cup rest] :
        a \in NullRuns,
        rest \in {{}} \cup
                 {{[n |-> b, cells |-> Cells({"y"}, [k |-> kd, u |-> b], NullCell)]} :
                     b \in 1..2, kd \in Kinds}}

\* tables without columns, without rows, and without the target column
DegenerateTables ==
    {[cols |-> {}, groups |-> {}],
     [cols |-> {"y", "f"}, groups |-> {}],
     [cols |-> {"f"},
      groups |-> {[n |-> MIN_VALID_ROWS,
                   cells |-> Cells({"f"}, NullCell, [k |-> "int", u |-> MIN_VALID_ROWS])]}]}

\* one-column tables with many distinct numbers: as many rows as values, or
\* 20 rows per value, or one row more, with or without a row whose "y" is
\* missing
ManyUnique == 50

ContinuousTargetsOf(u) ==
    {[cols |-> {"y"},
      groups |-> {[n |-> n, cells |-> Cells({"y"}, [k |-> kd, u |-> u], NullCell)]}
                    \cup nulls] :
        kd \in {"int", "flt"},
        n \in {u, 20 * u, 20 * u + 1},
        nulls \in {{}, {[n |-> 1, cells |-> Cells({"y"}, NullCell, NullCell)]}}}

ContinuousTargets == UNION {ContinuousTargetsOf(u) : u \in {ManyUnique, ManyUnique + 1}}

\* three-column tables of 10 rows, with or without an 11th row that lacks
\* "g": the target is constant or not, "f" is a good feature, "g" is
\* missing, constant, integral or text
WideTables ==
    {[cols |-> {"y", "f", "g"},
      groups |-> {[n |-> MIN_VALID_ROWS,
                   cells |-> [c \in {"y", "f", "g"} |->
                                IF c = "y" THEN [k |-> "int", u |-> yu]
                                ELSE IF c = "f" THEN [k |-> "int", u |-> MIN_VALID_ROWS]
                                ELSE gc]]} \cup extra] :
        yu \in 1..2,
        gc \in {NullCell, [k |-> "int", u |-> 1],
                [k |-> "int", u |-> MIN_VALID_ROWS],
                [k |-> "str", u |-> MIN_VALID_ROWS]},
        extra \in {{}, {[n |-> 1,
                         cells |-> [c \in {"y", "f", "g"} |->
                                      IF c = "g" THEN NullCell
                                      ELSE [k |-> "int", u |-> 1]]]}}}

Tables ==
    {[cols |-> t.cols, groups |-> t.groups, astype_keeps_na |-> FALSE] :
        t \in UploadedTables \cup LabelVectors \cup SparseColumns
                 \cup DegenerateTables \cup ContinuousTargets \cup WideTables}

InitVal ==
    /\ df \in Tables
    /\ vres = IdleVres
    /\ enc = IdleEnc
    /\ call = NoCall
    /\ evalres = NoMetrics
    /\ run = IdleRun
    /\ pipe = IdlePipe
    /\ gen = IdleGen
    /\ jobs = IdleJobs
    /\ world = IdleWorld

\* validator.validate_and_clean(df, target_col) under either pandas build
ValidateAndClean ==
    /\ vres = IdleVres
    /\ \E target_col \in {"y", NoTarget}, keeps_na \in BOOLEAN :
          LET r == DataValidator_validate_and_clean(
                      [df EXCEPT !.astype_keeps_na = keeps_na], target_col)
          IN vres' = [IdleVres EXCEPT !.op = "validate_and_clean",
                                      !.arg = target_col,
                                      !.keeps_na = keeps_na,
                                      !.raised = r.raised,
                                      !.error = r.error,
                                      !.columns = r.columns,
                                      !.cleaned = r.cleaned,
                                      !.report = r.report]
    /\ UNCHANGED <<enc, call, evalres, df, run, pipe, gen, jobs, world>>

\* validator._analyze_column(df[c], c)
AnalyzeOneColumn ==
    /\ vres = IdleVres
    /\ \E c \in df.cols :
          vres' = [IdleVres EXCEPT !.op = "_analyze_column",
                                   !.arg = c,
                                   !.health = AnalyzeColumn(df, c)]
    /\ UNCHANGED <<enc, call, evalres, df, run, pipe, gen, jobs, world>>

\* validator._infer_problem_type(df["y"], validator._analyze_column(df["y"]))
ValidatorInferProblemType ==
    /\ vres = IdleVres
    /\ "y" \in df.cols
    /\ vres' = [IdleVres EXCEPT
                  !.op = "DataValidator._infer_problem_type",
                  !.arg = "y",
                  !.health = AnalyzeColumn(df, "y"),
                  !.problem_type =
                      DataValidator_infer_problem_type(df, "y", AnalyzeColumn(df, "y"))]
    /\ UNCHANGED <<enc, call, evalres, df, run, pipe, gen, jobs, world>>

\* trainer._infer_problem_type(df["y"])
TrainerInferProblemType ==
    /\ vres = IdleVres
    /\ "y" \in df.cols
    /\ NRows(df.groups) > 0
    /\ vres' = [IdleVres EXCEPT
                  !.op = "ModelTrainer._infer_problem_type",
                  !.arg = "y",
                  !.problem_type = ModelTrainer_infer_problem_type(df, "y")]
    /\ UNCHANGED <<enc, call, evalres, df, run, pipe, gen, jobs, world>>

\* the trainer's _infer_problem_type on the label vector the validator has
\* just decided on (train_model step 3, ModelTrainer.train line 157)
TrainerRecheck ==
    /\ vres.op = "DataValidator._infer_problem_type"
    /\ vres.detected_type = "None"
    /\ NRows(df.groups) > 0
    /\ vres' = [vres EXCEPT !.detected_type = ModelTrainer_infer_problem_type(df, "y")]
    /\ UNCHANGED <<enc, call, evalres, df, run, pipe, gen, jobs, world>>

\* the caller takes the result
Discard ==
    /\ vres # IdleVres
    /\ vres' = IdleVres
    /\ UNCHANGED <<enc, call, evalres, df, run, pipe, gen, jobs, world>>

NextVal ==
    \/ ValidateAndClean
    \/ AnalyzeOneColumn
    \/ ValidatorInferProblemType
    \/ TrainerInferProblemType
    \/ TrainerRecheck
    \/ Discard

SpecVal == InitVal /\ [][NextVal]_vars

(***************************************************************************)
(* Claims about the DataValidator and the problem-type heuristics          *)
(* (checked under SpecVal)                                                 *)
(***************************************************************************)
\* the table validate_and_clean was called on
Validated == [df EXCEPT !.astype_keeps_na = vres.keeps_na]

\* the non-target columns left by step 3
RemainingFeatures ==
    (df.cols \ {"y"}) \ DroppedCols(Validated, "y", ColumnReports(Validated))

\* the number of rows left by steps 3 to 5
RemainingRows ==
    LET reports == ColumnReports(Validated)
    IN SumRows(CleanedGroups(Validated, "y",
                  DataValidator_infer_problem_type(Validated, "y", reports["y"]),
                  reports))

\* C2: validate_and_clean with a target column returns a cleaned table and a
\* report exactly when the table is non-empty, holds the target column, keeps
\* at least one non-target column and keeps at least 10 rows; otherwise it
\* raises and returns nothing.
C2_ValidateOutcome ==
    (vres.op = "validate_and_clean" /\ vres.arg = "y")
       => /\ ~vres.raised <=>
                /\ df.cols # {}
                /\ SumRows(df.groups) > 0
                /\ "y" \in df.cols
                /\ RemainingFeatures # {}
                /\ RemainingRows >= 10
          /\ vres.raised
                => vres.error # "" /\ vres.cleaned = {} /\ vres.report = NoReport
          /\ ~vres.raised
                => /\ "y" \in vres.columns
                   /\ vres.columns \ {"y"} = RemainingFeatures
                   /\ SumRows(vres.cleaned) = RemainingRows
                   /\ vres.report.is_valid
                   /\ vres.report.total_rows = RemainingRows

C2_Witness ==
    /\ vres.op = "validate_and_clean"
    /\ vres.arg = "y"
    /\ ~vres.raised
    /\ SumRows(df.groups) = 11
    /\ SumRows(vres.cleaned) = 10
    /\ vres.columns = {"y", "f"}

\* C3: after a successful validate_and_clean with a target column no row of
\* the cleaned table comes from an input row whose target value was null.
C3_NullTargetRowsRemoved ==
    (vres.op = "validate_and_clean" /\ vres.arg = "y" /\ ~vres.raised)
       => \A g \in vres.cleaned : g.src.cells["y"].k # "null"

\* C4: for a column whose null ratio is at or above 0.95, _analyze_column
\* returns inferred type 'invalid' and action 'drop' and does not run the
\* type inference, whatever the non-null values are.
C4_NullThresholdDrop ==
    LET nulls == SumRows({g \in df.groups : g.cells[vres.arg].k = "null"})
        rows  == SumRows(df.groups)
    IN (vres.op = "_analyze_column" /\ 100 * nulls >= 95 * rows)
          => /\ vres.health.inferred_type = "invalid"
             /\ vres.health.recommended_action = "drop"
             /\ ~vres.health.type_inference_ran
             /\ vres.health.coerce_to_dtype = "None"

C4_Witness ==
    /\ vres.op = "_analyze_column"
    /\ SumRows(df.groups) = 40
    /\ vres.health.null_count = 38
    /\ vres.health.unique_count = 2
    /\ \E g \in df.groups : g.cells[vres.arg].k = "flt"
    /\ vres.health.inferred_type = "invalid"
    /\ vres.health.recommended_action = "drop"

\* C5: for a label vector whose values are all integral and which has fewer
\* than 20 unique values, the validator's and the trainer's _infer_problem_type
\* return 'classification'.
C5_FewIntegralIsClassification ==
    (/\ vres.op \in {"DataValidator._infer_problem_type",
                     "ModelTrainer._infer_problem_type"}
     /\ df.groups # {}
     /\ \A g \in df.groups : g.cells["y"].k = "int"
     /\ SumUnique(df.groups, "y") < 20)
       => vres.problem_type = "classification"

\* the groups of rows of the label vector that hold a value
LabelGroups == {g \in df.groups : g.cells["y"].k # "null"}

\* the label vector is numeric, not all integral, with 50 or more values
ManyNonIntegral ==
    /\ df.cols = {"y"}
    /\ \A g \in df.groups : g.cells["y"].k \in {"int", "flt", "null"}
    /\ \E g \in df.groups : g.cells["y"].k = "flt"
    /\ SumUnique(LabelGroups, "y") >= 50

\* the rows of the label vector that hold a value
LabelRows == SumRows(LabelGroups)

C19_ClassifiersAgree ==
    (vres.op = "DataValidator._infer_problem_type" /\ vres.detected_type # "None")
       => vres.detected_type = vres.problem_type

\* the non-target columns of the input table
NonTargetCols == df.cols \ {vres.arg}

\* C22: after a successful validate_and_clean the cleaned table holds the
\* input columns minus the non-target columns whose record recommends
\* 'drop'; the target column is kept whatever its own record recommends;
\* report.dropped_columns and report.valid_columns are disjoint and
\* together are the non-target input columns.
C22_ColumnPartition ==
    (vres.op = "validate_and_clean" /\ ~vres.raised) =>
        LET dropped == {c \in NonTargetCols :
                           vres.report.column_reports[c].recommended_action = "drop"}
        IN /\ vres.columns = df.cols \ dropped
           /\ \A g \in vres.cleaned : DOMAIN g.cells = df.cols \ dropped
           /\ vres.arg # NoTarget => vres.arg \in vres.columns
           /\ vres.report.dropped_columns = dropped
           /\ vres.report.dropped_columns \cap vres.report.valid_columns = {}
           /\ vres.report.dropped_columns \cup vres.report.valid_columns
                 = NonTargetCols
           /\ vres.report.total_columns = Cardinality(df.cols \ dropped)

\* a constant target, whose record says 'drop', is kept; the constant
\* column "g" is dropped and the column "f" stays
C22_Witness ==
    /\ vres.op = "validate_and_clean"
    /\ vres.arg = "y"
    /\ ~vres.raised
    /\ df.cols = {"y", "f", "g"}
    /\ vres.report.column_reports["y"].recommended_action = "drop"
    /\ vres.columns = {"y", "f"}
    /\ vres.report.dropped_columns = {"g"}
    /\ vres.report.valid_columns = {"f"}
    /\ vres.report.column_reports["g"].unique_count = 1

\* C23: for a column below the null threshold _analyze_column recommends
\* 'drop' exactly when the column has at most one unique non-null value;
\* otherwise 'coerce' exactly when the inferred storage type differs from
\* the original type; 'keep' otherwise.
C23_RecommendedAction ==
    LET c      == vres.arg
        values == {g \in df.groups : g.cells[c].k # "null"}
        nulls  == SumRows(df.groups \ values)
        unique == SumUnique(values, c)
        action == vres.health.recommended_action
    IN (vres.op = "_analyze_column" /\ 100 * nulls < 95 * SumRows(df.groups)) =>
          /\ action \in {"drop", "coerce", "keep"}
          /\ action = "drop" <=> unique <= 1
          /\ unique > 1 =>
                (action = "coerce"
                    <=> vres.health.coerce_to_dtype # vres.health.original_dtype)

\* a column of one value everywhere is dropped
C23_Witness ==
    /\ vres.op = "_analyze_column"
    /\ vres.health.null_count = 0
    /\ vres.health.unique_count = 1
    /\ vres.health.n_total = MIN_VALID_ROWS
    /\ vres.health.type_inference_ran
    /\ vres.health.recommended_action = "drop"

(***************************************************************************)
(* SpecRun: one training run, preprocess_data followed by train_model's    *)
(* automated branch or by ModelTrainer.train.  The rows of the cleaned     *)
(* table are 1..rows; fits and applied record which rows each fit and each *)
(* transform / predict was given.                                          *)
(***************************************************************************)
\* rows of the cleaned table beyond the minimum of MIN_VALID_ROWS
ExtraRows == 2
\* min_test_samples of preprocess_data
MIN_TEST_SAMPLES == 5

\* test_size of the request, in percent (the route accepts 0.1 to 0.5)
TestPercents == {10, 20, 50}

CeilDiv(a, b) == (a + b - 1) \div b

\* EffectiveTestSize without the adjustment for small datasets
EffectiveTestSize_unadjusted(n, pct) == <<pct, 100>>

\* the test_size preprocess_data hands to train_test_split, as the fraction
\* <<numerator, denominator>>: max(min_test_samples / n, 0.1) when
\* n * test_size is below min_test_samples, else the requested test_size
EffectiveTestSize(n, pct) ==
    IF n * pct < MIN_TEST_SAMPLES * 100
    THEN IF MIN_TEST_SAMPLES * 10 >= n THEN <<MIN_TEST_SAMPLES, n>> ELSE <<1, 10>>
    ELSE <<pct, 100>>

\* the number of test rows train_test_split makes of n rows:
\* n_test = ceil(test_size * n)
NTest(n, pct) ==
    LET test_size == EffectiveTestSize(n, pct)
    IN CeilDiv(n * test_size[1], test_size[2])

\* the rows each stage is given
BuildPipelineRows(r) == r.train

PreprocessorFitRows(r) == r.train

PreprocessorTransformRows(r) == r.test

\* LabelEncoderFitRows fitting the encoder on the labels of both partitions
LabelEncoderFitRows_allRows(r) == r.train \cup r.test

LabelEncoderFitRows(r) == r.train

LabelEncoderTransformRows(r) == r.test

AutoMLFitRows(r) == r.train

AutoMLPredictRows(r) == r.test

EstimatorFitRows(r) == r.train

PredictRows(r) == r.test

Used(stage, rows) == [stage |-> stage, rows |-> rows]

\* safe_encode_labels(y_train, y_test) for classification; the regression
\* branch converts the labels to float and fits nothing
EncodeLabels(r) ==
    IF r.problem_type = "classification"
    THEN [r EXCEPT
            !.fits = @ \cup {Used("label_encoder.fit", LabelEncoderFitRows(r))},
            !.applied = @ \cup {Used("label_encoder.transform", LabelEncoderFitRows(r)),
                                Used("label_encoder.transform",
                                     LabelEncoderTransformRows(r))}]
    ELSE r

\* the except clauses that close preprocess_data: DataPreprocessingError is
\* re-raised, anything else (the validator's ValueError) is wrapped
PreprocessDataExcept(exc) ==
    IF exc = "DataPreprocessingError"
    THEN "DataPreprocessingError"
    ELSE "DataPreprocessingError"

\* the except clauses that close preprocess_dataset
PreprocessDatasetExcept(exc) ==
    IF exc = "DataPreprocessingError"
    THEN "DataPreprocessingError"
    ELSE "DataPreprocessingError"

\* unique_classes < 20
STRATIFY_CLASS_LIMIT == 20
\* random_state of preprocess_data
RANDOM_STATE == 42

\* preprocess_data step 4: whether stratify is y (TRUE) or None (FALSE)
Stratify(problem_type, unique_classes) ==
    problem_type = "classification" /\ unique_classes < STRATIFY_CLASS_LIMIT

\* one call of train_test_split and whether it raised ValueError
SplitCall(stratify, test_size, raised) ==
    [stratify |-> stratify, test_size |-> test_size,
     random_state |-> RANDOM_STATE, raised |-> raised]

\* whether train_test_split(.., stratify=y) raises for n rows of which n_test
\* go to the test set: it does when a partition is smaller than the number
\* of classes or when some class is bound to have a single member, and it
\* may when the classes are few (one of them can still be a single row)
StratifiedSplitRaises(n, n_test, unique_classes) ==
    IF \/ unique_classes > n_test
       \/ unique_classes > n - n_test
       \/ 2 * unique_classes > n
    THEN {TRUE}
    ELSE BOOLEAN

\* whether train_test_split without stratify raises: it does when the
\* training partition would be empty
UnstratifiedSplitRaises(n, n_test) == IF n_test >= n THEN {TRUE} ELSE {FALSE}

\* the outcomes of the first call of step 4
FirstSplitRaises(n, n_test, stratify, unique_classes) ==
    IF stratify
    THEN StratifiedSplitRaises(n, n_test, unique_classes)
            \cup (UnstratifiedSplitRaises(n, n_test) \cap {TRUE})
    ELSE UnstratifiedSplitRaises(n, n_test)

\* SplitRetry keeping the stratification
SplitRetry_stratified(first, raised) == [first EXCEPT !.raised = raised]

\* the call made after a ValueError: no stratify argument, the same
\* test_size and random_state
SplitRetry(first, raised) ==
    [first EXCEPT !.stratify = FALSE, !.raised = raised]

\* the calls of train_test_split step 4 can make: one that returns, or one
\* that raises ValueError followed by the retry
SplitAttempts(n, n_test, test_size, stratify, unique_classes) ==
    LET first_raises == FirstSplitRaises(n, n_test, stratify, unique_classes)
    IN {<<SplitCall(stratify, test_size, FALSE)>> : x \in first_raises \ {TRUE}}
       \cup {<<SplitCall(stratify, test_size, TRUE),
               SplitRetry(SplitCall(stratify, test_size, TRUE), retry_raises)>> :
                 retry_raises \in IF TRUE \in first_raises
                                  THEN UnstratifiedSplitRaises(n, n_test)
                                  ELSE {}}

\* the problem types and class counts of a label vector of n rows
LabelProfiles(n) ==
    {[problem_type |-> "classification", unique_classes |-> k] :
        k \in {u \in {2, STRATIFY_CLASS_LIMIT - 1, STRATIFY_CLASS_LIMIT, n} : u <= n}}
    \cup {[problem_type |-> "regression", unique_classes |-> n]}

InitRun ==
    /\ \E n \in MIN_VALID_ROWS..(MIN_VALID_ROWS + ExtraRows),
          pct \in TestPercents, model_type \in {"auto", "manual"} :
          run = [pc |-> "validated", rows |-> 1..n, test_pct |-> pct,
                 model_type |-> model_type, problem_type |-> "auto",
                 test_size |-> <<pct, 100>>,
                 train |-> {}, test |-> {}, fits |-> {}, applied |-> {},
                 detected_type |-> "None", error |-> "",
                 target_type |-> "None", unique_classes |-> 0, splits |-> <<>>]
    /\ enc = IdleEnc
    /\ call = NoCall
    /\ evalres = NoMetrics
    /\ df = IdleDf
    /\ vres = IdleVres
    /\ pipe = IdlePipe
    /\ gen = IdleGen
    /\ jobs = IdleJobs
    /\ world = IdleWorld

\* preprocess_data step 4: train_test_split, with the retry; a split that
\* raised twice leaves through the except clause as DataPreprocessingError
TrainTestSplit ==
    /\ run.pc = "validated"
    /\ LET n == Cardinality(run.rows)
           test_size == EffectiveTestSize(n, run.test_pct)
           n_test == NTest(n, run.test_pct)
       IN \E profile \in LabelProfiles(n) :
          \E splits \in SplitAttempts(n, n_test, test_size,
                                       Stratify(profile.problem_type,
                                                profile.unique_classes),
                                       profile.unique_classes) :
             IF splits[Len(splits)].raised
             THEN run' = [run EXCEPT !.pc = "failed",
                                     !.error = "DataPreprocessingError",
                                     !.test_size = test_size,
                                     !.target_type = profile.problem_type,
                                     !.unique_classes = profile.unique_classes,
                                     !.splits = splits]
             ELSE \E test \in {S \in SUBSET run.rows : Cardinality(S) = n_test} :
                     run' = [run EXCEPT !.pc = "split", !.test = test,
                                        !.train = run.rows \ test,
                                        !.test_size = test_size,
                                        !.target_type = profile.problem_type,
                                        !.unique_classes = profile.unique_classes,
                                        !.splits = splits]
    /\ UNCHANGED <<enc, call, evalres, df, vres, pipe, gen, jobs, world>>

\* preprocess_data step 5: build_pipeline(X_train)
BuildPipeline ==
    /\ run.pc = "split"
    /\ run' = [run EXCEPT
                 !.pc = "pipeline",
                 !.fits = @ \cup {Used("build_pipeline", BuildPipelineRows(run))}]
    /\ UNCHANGED <<enc, call, evalres, df, vres, pipe, gen, jobs, world>>

\* preprocess_data step 6: preprocessor.fit_transform(X_train, y_train), or
\* DataPreprocessingError
PreprocessorFitTransform ==
    /\ run.pc = "pipeline"
    /\ \E ok \in BOOLEAN :
          run' = [run EXCEPT
                    !.pc = IF ok THEN "fitted" ELSE "failed",
                    !.fits = @ \cup {Used("preprocessor.fit_transform",
                                          PreprocessorFitRows(run))}]
    /\ UNCHANGED <<enc, call, evalres, df, vres, pipe, gen, jobs, world>>

\* preprocess_data step 6: preprocessor.transform(X_test), or
\* DataPreprocessingError
PreprocessorTransform ==
    /\ run.pc = "fitted"
    /\ \E ok \in BOOLEAN :
          run' = [run EXCEPT
                    !.pc = IF ok THEN "preprocessed" ELSE "failed",
                    !.applied = @ \cup {Used("preprocessor.transform",
                                             PreprocessorTransformRows(run))}]
    /\ UNCHANGED <<enc, call, evalres, df, vres, pipe, gen, jobs, world>>

\* train_model step 3: the problem type, given or inferred from y_train
DetermineProblemType ==
    /\ run.pc = "preprocessed"
    /\ \E problem_type \in {"classification", "regression"} :
          run' = [run EXCEPT !.pc = "typed", !.problem_type = problem_type]
    /\ UNCHANGED <<enc, call, evalres, df, vres, pipe, gen, jobs, world>>

\* train_model, automated branch: trainer._encode_labels_safe(y_train, y_test)
AutoEncodeLabels ==
    /\ run.pc = "typed"
    /\ run.model_type = "auto"
    /\ run' = [EncodeLabels(run) EXCEPT !.pc = "encoded"]
    /\ UNCHANGED <<enc, call, evalres, df, vres, pipe, gen, jobs, world>>

\* train_model, automated branch: selector.select_best_model(X_train, y_train_encoded)
SelectBestModel ==
    /\ run.pc = "encoded"
    /\ run.model_type = "auto"
    /\ \E ok \in BOOLEAN :
          run' = [run EXCEPT
                    !.pc = IF ok THEN "model_fitted" ELSE "failed",
                    !.fits = @ \cup {Used("select_best_model", AutoMLFitRows(run))}]
    /\ UNCHANGED <<enc, call, evalres, df, vres, pipe, gen, jobs, world>>

\* train_model, automated branch: best_model.predict(X_test) and the metrics
AutoPredict ==
    /\ run.pc = "model_fitted"
    /\ run.model_type = "auto"
    /\ \E ok \in BOOLEAN :
          run' = [run EXCEPT
                    !.pc = IF ok THEN "trained" ELSE "failed",
                    !.applied = @ \cup {Used("best_model.predict",
                                             AutoMLPredictRows(run))}]
    /\ UNCHANGED <<enc, call, evalres, df, vres, pipe, gen, jobs, world>>

\* train_model, manual branch: trainer.initialize_model(...)
InitializeModel ==
    /\ run.pc = "typed"
    /\ run.model_type = "manual"
    /\ \E ok \in BOOLEAN :
          run' = [run EXCEPT !.pc = IF ok THEN "initialized" ELSE "failed"]
    /\ UNCHANGED <<enc, call, evalres, df, vres, pipe, gen, jobs, world>>

\* ModelTrainer.train, lines 155-171, encoding the labels before the re-check
TrainLabels_encodeFirst(r, detected_type) ==
    IF r.problem_type = "classification"
    THEN IF detected_type = "regression"
         THEN [EncodeLabels(r) EXCEPT !.pc = "failed", !.detected_type = detected_type,
                                      !.error = "ModelTrainingError"]
         ELSE [EncodeLabels(r) EXCEPT !.pc = "encoded",
                                      !.detected_type = detected_type]
    ELSE [r EXCEPT !.pc = "encoded"]

\* ModelTrainer.train, lines 155-171: for classification the labels are
\* re-checked and the call raises when they look continuous, else they are
\* encoded; for regression they are converted to float
TrainLabels(r, detected_type) ==
    IF r.problem_type = "classification"
    THEN IF detected_type = "regression"
         THEN [r EXCEPT !.pc = "failed", !.detected_type = detected_type,
                        !.error = "ModelTrainingError"]
         ELSE [EncodeLabels(r) EXCEPT !.pc = "encoded",
                                      !.detected_type = detected_type]
    ELSE [r EXCEPT !.pc = "encoded"]

\* ModelTrainer.train: the label handling; detected_type is what
\* self._infer_problem_type(y_train) returns for the labels of the run
TrainEncodeLabels ==
    /\ run.pc = "initialized"
    /\ \E detected_type \in {"classification", "regression"} :
          run' = TrainLabels(run, detected_type)
    /\ UNCHANGED <<enc, call, evalres, df, vres, pipe, gen, jobs, world>>

\* ModelTrainer.train: self.model.fit(X_train, y_train_processed)
TrainFit ==
    /\ run.pc = "encoded"
    /\ run.model_type = "manual"
    /\ \E ok \in BOOLEAN :
          run' = [run EXCEPT
                    !.pc = IF ok THEN "model_fitted" ELSE "failed",
                    !.fits = @ \cup {Used("model.fit", EstimatorFitRows(run))}]
    /\ UNCHANGED <<enc, call, evalres, df, vres, pipe, gen, jobs, world>>

\* ModelTrainer.train: self.model.predict(X_test) and the metrics
TrainPredict ==
    /\ run.pc = "model_fitted"
    /\ run.model_type = "manual"
    /\ \E ok \in BOOLEAN :
          run' = [run EXCEPT
                    !.pc = IF ok THEN "trained" ELSE "failed",
                    !.applied = @ \cup {Used("model.predict", PredictRows(run))}]
    /\ UNCHANGED <<enc, call, evalres, df, vres, pipe, gen, jobs, world>>

NextRun ==
    \/ TrainTestSplit
    \/ BuildPipeline
    \/ PreprocessorFitTransform
    \/ PreprocessorTransform
    \/ DetermineProblemType
    \/ AutoEncodeLabels
    \/ SelectBestModel
    \/ AutoPredict
    \/ InitializeModel
    \/ TrainEncodeLabels
    \/ TrainFit
    \/ TrainPredict

SpecRun == InitRun /\ [][NextRun]_vars

(***************************************************************************)
(* Claim about the training run (checked under SpecRun)                    *)
(***************************************************************************)
FitStages ==
    {"build_pipeline", "preprocessor.fit_transform", "label_encoder.fit",
     "select_best_model", "model.fit"}

ApplyStages ==
    {"preprocessor.transform", "label_encoder.transform", "best_model.predict",
     "model.predict"}

\* C1: in every training run the split partitions the rows, and every fit
\* (column routing of build_pipeline, preprocessor fit, label-encoder fit,
\* estimator fit) is given rows of the training partition only; rows of the
\* test partition are given to transform and predict only; and a run that
\* completes has made each of its fits on exactly the training partition.
C1_FitsSeeTrainOnly ==
    run.pc \notin {"idle", "validated"}
       => /\ run.train \cap run.test = {}
          /\ run.train \cup run.test = run.rows
          /\ run.train # {} /\ run.test # {}
          /\ \A f \in run.fits :
                /\ f.stage \in FitStages
                /\ f.rows \cap run.test = {}
                /\ f.rows = run.train
          /\ \A a \in run.applied :
                /\ a.stage \in ApplyStages
                /\ a.stage \in {"preprocessor.transform", "best_model.predict",
                                "model.predict"} => a.rows = run.test
          /\ run.pc = "trained"
                => /\ Used("build_pipeline", run.train) \in run.fits
                   /\ Used("preprocessor.fit_transform", run.train) \in run.fits
                   /\ Used("preprocessor.transform", run.test) \in run.applied
                   /\ \/ Used("select_best_model", run.train) \in run.fits
                      \/ Used("model.fit", run.train) \in run.fits
                   /\ run.problem_type = "classification"
                         => /\ Used("label_encoder.fit", run.train) \in run.fits
                            /\ Used("label_encoder.transform", run.test)
                                  \in run.applied

C1_Witness ==
    /\ run.pc = "trained"
    /\ run.problem_type = "classification"
    /\ run.model_type = "manual"
    /\ Cardinality(run.test) = 6
    /\ Cardinality(run.fits) = 4
    /\ Used("label_encoder.fit", run.train) \in run.fits
    /\ Used("model.predict", run.test) \in run.applied

\* C11: for a cleaned dataset of N >= 10 rows and a requested test fraction t
\* with N * t < 5, the split is made with the fraction max(5 / N, 0.1): the
\* split succeeds, the test partition has at least 5 rows (ceil of fraction
\* times N) and the training partition is not empty.
C11_SmallDatasetSplit ==
    LET n == Cardinality(run.rows)
    IN (run.pc = "split" /\ n * run.test_pct < 5 * 100)
          => /\ run.test_size[1] * 10 * n = run.test_size[2] * (IF 50 >= n THEN 50 ELSE n)
             /\ Cardinality(run.test) * run.test_size[2] >= n * run.test_size[1]
             /\ (Cardinality(run.test) - 1) * run.test_size[2] < n * run.test_size[1]
             /\ Cardinality(run.test) >= 5
             /\ run.train # {}
             /\ run.train \cup run.test = run.rows
             /\ run.train \cap run.test = {}

C11_Witness ==
    /\ run.pc = "split"
    /\ Cardinality(run.rows) = 12
    /\ run.test_pct = 20
    /\ run.test_size = <<5, 12>>
    /\ Cardinality(run.test) = 5
    /\ Cardinality(run.train) = 7

\* the stages of the run that have fitted something
FittedStages == {u.stage : u \in run.fits}

\* C20: in ModelTrainer.train with problem type 'classification', when the
\* re-check of the training labels returns 'regression' the call has failed
\* with ModelTrainingError and neither the label encoder nor the estimator
\* was fitted; when it returns 'classification' the label encoder is fitted,
\* on the training labels, before the estimator's fit is called.
C20_RecheckBeforeEncoding ==
    (/\ run.pc # "idle"
     /\ run.model_type = "manual"
     /\ run.problem_type = "classification"
     /\ run.detected_type # "None") =>
        /\ (run.detected_type = "regression") =>
              /\ run.pc = "failed"
              /\ run.error = "ModelTrainingError"
              /\ "label_encoder.fit" \notin FittedStages
              /\ "model.fit" \notin FittedStages
        /\ (run.detected_type = "classification") =>
              /\ [stage |-> "label_encoder.fit", rows |-> run.train] \in run.fits
              /\ (run.pc = "encoded") => "model.fit" \notin FittedStages

\* a classification run whose labels look continuous has been refused
C20_Witness ==
    /\ run.pc = "failed"
    /\ run.model_type = "manual"
    /\ run.problem_type = "classification"
    /\ run.detected_type = "regression"
    /\ run.error = "ModelTrainingError"
    /\ "preprocessor.fit_transform" \in FittedStages

(***************************************************************************)
(* SpecSplit: step 4 of preprocess_data on a cleaned table given by its    *)
(* number of rows, the problem type of its target and the number of        *)
(* classes of the target, for the test fractions of the route and for the  *)
(* test fraction 1.0, which train_test_split refuses.                      *)
(***************************************************************************)
\* most rows of the cleaned table
MaxSplitRows == 40

SplitPercents == TestPercents \cup {100}

InitSplit ==
    /\ \E n \in MIN_VALID_ROWS..MaxSplitRows, pct \in SplitPercents :
          \E profile \in LabelProfiles(n) :
             run = [pc |-> "validated", n_rows |-> n, test_pct |-> pct,
                    target_type |-> profile.problem_type,
                    unique_classes |-> profile.unique_classes,
                    test_size |-> <<pct, 100>>, splits |-> <<>>,
                    n_train |-> 0, n_test |-> 0, error |-> ""]
    /\ enc = IdleEnc
    /\ call = NoCall
    /\ evalres = NoMetrics
    /\ df = IdleDf
    /\ vres = IdleVres
    /\ pipe = IdlePipe
    /\ gen = IdleGen
    /\ jobs = IdleJobs
    /\ world = IdleWorld

\* preprocess_data step 4 on the counts: the test_size adjustment, the
\* stratify decision, train_test_split and its retry; a retry that raises
\* leaves preprocess_data as DataPreprocessingError
SplitDataset ==
    /\ run.pc = "validated"
    /\ LET n == run.n_rows
           test_size == EffectiveTestSize(n, run.test_pct)
           n_test == NTest(n, run.test_pct)
       IN \E splits \in SplitAttempts(n, n_test, test_size,
                                       Stratify(run.target_type, run.unique_classes),
                                       run.unique_classes) :
             run' = IF splits[Len(splits)].raised
                    THEN [run EXCEPT !.pc = "failed",
                                     !.error = PreprocessDataExcept("ValueError"),
                                     !.test_size = test_size,
                                     !.splits = splits]
                    ELSE [run EXCEPT !.pc = "split",
                                     !.test_size = test_size,
                                     !.splits = splits,
                                     !.n_test = n_test,
                                     !.n_train = n - n_test]
    /\ UNCHANGED <<enc, call, evalres, df, vres, pipe, gen, jobs, world>>

NextSplit == SplitDataset

SpecSplit == InitSplit /\ [][NextSplit]_vars

\* C27: a ValueError of the first train_test_split does not abort
\* preprocess_data: the split is made once more without stratification,
\* with the same test fraction and random seed, and preprocess_data fails
\* with DataPreprocessingError only if that second split raises too; the
\* first split is stratified only for a classification target with fewer
\* than 20 classes.
C27_SplitFallback ==
    (run.pc \in {"split", "failed"}) =>
        LET first == run.splits[1]
        IN /\ Len(run.splits) \in 1..2
           /\ first.stratify <=>
                 (run.target_type = "classification" /\ run.unique_classes < 20)
           /\ first.test_size = run.test_size
           /\ Len(run.splits) = 1 => ~first.raised
           /\ Len(run.splits) = 2 =>
                 /\ first.raised
                 /\ ~run.splits[2].stratify
                 /\ run.splits[2].test_size = first.test_size
                 /\ run.splits[2].random_state = first.random_state
           /\ (run.pc = "failed") <=>
                 (Len(run.splits) = 2 /\ run.splits[2].raised)
           /\ (run.pc = "failed") => run.error = "DataPreprocessingError"
           /\ (run.pc = "split") =>
                 /\ run.n_train > 0
                 /\ run.n_test > 0
                 /\ run.n_train + run.n_test = run.n_rows

\* 19 classes in 20 rows: the stratified split raised and the unstratified
\* one made the partitions
C27_Witness ==
    /\ run.pc = "split"
    /\ run.n_rows = 20
    /\ run.unique_classes = 19
    /\ Len(run.splits) = 2
    /\ run.splits[1].stratify
    /\ run.splits[1].raised
    /\ ~run.splits[2].raised
    /\ run.n_test = 5

(***************************************************************************)
(* SpecPipe: DataPreprocessing.build_pipeline on a feature table.          *)
(* A feature column is the counts the function reads from it: its non-null *)
(* cells, how many of those pd.to_numeric converts, its distinct non-null  *)
(* values, and the variance of its converted cells.                        *)
(***************************************************************************)
MaxFeatures == 2

NUMERIC_RATE_NUM == 4
NUMERIC_RATE_DEN == 5
ID_UNIQUE_LIMIT == 1000
HIGH_CARDINALITY_LIMIT == 50
HIGH_RATIO_DEN == 2
FEW_SAMPLES == 10
MANY_SAMPLES == 2010

\* Series.var() of a column: NaN for a single value, else ordered
Variances == {"nan", "zero", "small", "large"}
VarianceRank(v) == CASE v = "zero" -> 0 [] v = "small" -> 1 [] OTHER -> 2
\* the variance_threshold argument: the default 0.0, or a positive one
\* lying between the "small" and the "large" variances
VarianceThresholds == {"0.0", "small"}

FeatureNames == <<"f1", "f2", "f3", "f4">>

Column(n, k, u, v) == [nonnull |-> n, numeric |-> k, unique |-> u, variance |-> v]

AllNullColumns == {Column(0, 0, 0, "nan")}

NumericColumns ==
    {Column(FEW_SAMPLES, k, FEW_SAMPLES, v) :
        k \in {(NUMERIC_RATE_NUM * FEW_SAMPLES) \div NUMERIC_RATE_DEN + 1, FEW_SAMPLES},
        v \in Variances}

CategoricalColumns ==
    {Column(FEW_SAMPLES, k, u, "nan") :
        k \in {0, (NUMERIC_RATE_NUM * FEW_SAMPLES) \div NUMERIC_RATE_DEN},
        u \in {1, FEW_SAMPLES \div HIGH_RATIO_DEN,
               FEW_SAMPLES \div HIGH_RATIO_DEN + 1, FEW_SAMPLES}}
    \cup
    {Column(MANY_SAMPLES, 0, u, "nan") :
        u \in {1, HIGH_CARDINALITY_LIMIT, HIGH_CARDINALITY_LIMIT + 1,
               ID_UNIQUE_LIMIT, ID_UNIQUE_LIMIT + 1,
               MANY_SAMPLES \div HIGH_RATIO_DEN + 1, MANY_SAMPLES}}

Columns == AllNullColumns \cup NumericColumns \cup CategoricalColumns

\* the feature tables: zero to MaxFeatures named columns
FeatureTables ==
    UNION {[{FeatureNames[i] : i \in 1..k} -> Columns] : k \in 0..MaxFeatures}

\* len(col_data) == 0
AllNull(col) == col.nonnull = 0

\* conversion_rate > 0.8
ConversionRateHigh(col) ==
    col.numeric * NUMERIC_RATE_DEN > NUMERIC_RATE_NUM * col.nonnull

\* first loop: the columns appended to numeric_features
NumericFeatures(X) ==
    {c \in DOMAIN X : ~AllNull(X[c]) /\ ConversionRateHigh(X[c])}

\* first loop: the columns appended to categorical_features
CategoricalFeatures(X) ==
    {c \in DOMAIN X : ~AllNull(X[c]) /\ ~ConversionRateHigh(X[c])}

\* numeric_variances[numeric_variances <= variance_threshold]; a NaN
\* variance compares false, and the step is skipped for the threshold 0.0
LowVarianceCols(X, variance_threshold) ==
    IF variance_threshold = "0.0" \/ NumericFeatures(X) = {}
    THEN {}
    ELSE {c \in NumericFeatures(X) :
             /\ X[c].variance # "nan"
             /\ VarianceRank(X[c].variance) <= VarianceRank(variance_threshold)}

\* n_unique > 1000 or n_unique == n_samples
IdentifierLike_limitOnly(col) == col.unique > ID_UNIQUE_LIMIT
IdentifierLike(col) ==
    col.unique > ID_UNIQUE_LIMIT \/ col.unique = col.nonnull

\* HighCardinality without the ratio test
HighCardinality_countOnly(col) == col.unique > HIGH_CARDINALITY_LIMIT

\* n_unique > 50 or (n_unique / n_samples) > 0.5
HighCardinality(col) ==
    \/ col.unique > HIGH_CARDINALITY_LIMIT
    \/ col.unique * HIGH_RATIO_DEN > col.nonnull

\* the three ("name", transformer, columns) entries, in the order appended
\* (num, low, high: numeric_features, low_cardinality_cats,
\* high_cardinality_cats)
Transformers(num, low, high, use_target_encoder) ==
    (IF num # {}
     THEN <<[name |-> "num", encoder |-> "StandardScaler", columns |-> num]>>
     ELSE <<>>)
    \o (IF low # {}
        THEN <<[name |-> "cat_low", encoder |-> "OneHotEncoder", columns |-> low]>>
        ELSE <<>>)
    \o (IF high # {}
        THEN <<[name |-> "cat_high",
                encoder |-> IF use_target_encoder THEN "TargetEncoder"
                                                  ELSE "OneHotEncoder",
                columns |-> high]>>
        ELSE <<>>)

DataPreprocessing_build_pipeline(X, use_target_encoder, variance_threshold) ==
    LET low_variance_cols == LowVarianceCols(X, variance_threshold)
        numeric_features == NumericFeatures(X) \ low_variance_cols
        dropped_ids == {c \in CategoricalFeatures(X) : IdentifierLike(X[c])}
        high_cardinality_cats ==
            {c \in CategoricalFeatures(X) \ dropped_ids : HighCardinality(X[c])}
        low_cardinality_cats ==
            (CategoricalFeatures(X) \ dropped_ids) \ high_cardinality_cats
        transformers ==
            Transformers(numeric_features, low_cardinality_cats,
                         high_cardinality_cats, use_target_encoder)
    IN [raised |-> transformers = <<>>,
        error |-> IF transformers = <<>> THEN "DataPreprocessingError" ELSE "",
        transformers |-> transformers,
        removed_features |->
            {c \in DOMAIN X : AllNull(X[c])} \cup low_variance_cols \cup dropped_ids]

\* len(X) of a table with these columns: the most non-null cells of a
\* column, or one row more
RowCounts(X) ==
    LET filled == {X[c].nonnull : c \in DOMAIN X} \cup {0}
        longest == CHOOSE m \in filled : \A k \in filled : k <= m
    IN {longest, longest + 1}

InitPipe ==
    /\ \E X \in FeatureTables, use_target_encoder \in BOOLEAN,
          variance_threshold \in VarianceThresholds :
          \E n_rows \in RowCounts(X) :
          pipe = [pc |-> "called", X |-> X, n_rows |-> n_rows,
                  use_target_encoder |-> use_target_encoder,
                  variance_threshold |-> variance_threshold,
                  raised |-> FALSE, error |-> "", transformers |-> <<>>,
                  removed_features |-> {}]
    /\ enc = IdleEnc
    /\ call = NoCall
    /\ evalres = NoMetrics
    /\ df = IdleDf
    /\ vres = IdleVres
    /\ run = IdleRun
    /\ gen = IdleGen
    /\ jobs = IdleJobs
    /\ world = IdleWorld

\* preprocessor.build_pipeline(X_train, use_target_encoder, variance_threshold)
BuildPipelineCall ==
    /\ pipe.pc = "called"
    /\ LET r == DataPreprocessing_build_pipeline(
                    pipe.X, pipe.use_target_encoder, pipe.variance_threshold)
       IN pipe' = [pipe EXCEPT !.pc = IF r.raised THEN "raised" ELSE "returned",
                               !.raised = r.raised,
                               !.error = r.error,
                               !.transformers = r.transformers,
                               !.removed_features = r.removed_features]
    /\ UNCHANGED <<enc, call, evalres, df, vres, run, gen, jobs, world>>

NextPipe == BuildPipelineCall

SpecPipe == InitPipe /\ [][NextPipe]_vars

(***************************************************************************)
(* Claims about build_pipeline                                             *)
(***************************************************************************)
\* the columns left in a group after the three kinds of drop, read off the
\* table with the thresholds of the source
KeptNumeric ==
    {c \in DOMAIN pipe.X :
        /\ pipe.X[c].nonnull > 0
        /\ 5 * pipe.X[c].numeric > 4 * pipe.X[c].nonnull
        /\ ~(/\ pipe.variance_threshold = "small"
             /\ pipe.X[c].variance \in {"zero", "small"})}

KeptCategorical ==
    {c \in DOMAIN pipe.X :
        /\ pipe.X[c].nonnull > 0
        /\ 5 * pipe.X[c].numeric <= 4 * pipe.X[c].nonnull
        /\ pipe.X[c].unique <= 1000
        /\ pipe.X[c].unique # pipe.X[c].nonnull}

KeptHigh ==
    {c \in KeptCategorical :
        pipe.X[c].unique > 50 \/ 2 * pipe.X[c].unique > pipe.X[c].nonnull}

KeptLow == KeptCategorical \ KeptHigh

GroupOf(name) ==
    CASE name = "num" -> KeptNumeric
      [] name = "cat_low" -> KeptLow
      [] name = "cat_high" -> KeptHigh
      [] OTHER -> {}

\* C12: build_pipeline raises DataPreprocessingError exactly when, after the
\* all-null columns, the low-variance numeric columns and the identifier-like
\* categorical columns are dropped, the numeric, the low-cardinality and the
\* high-cardinality group are all empty; otherwise it returns a preprocessor
\* that has exactly one transformer for each non-empty group, over the
\* columns of that group.
C12_NoFeaturesRaises ==
    (pipe.pc \in {"raised", "returned"}) =>
        /\ (pipe.pc = "raised") <=>
              (KeptNumeric = {} /\ KeptLow = {} /\ KeptHigh = {})
        /\ (pipe.pc = "raised") =>
              (pipe.error = "DataPreprocessingError" /\ pipe.transformers = <<>>)
        /\ (pipe.pc = "returned") =>
              /\ \A g \in {"num", "cat_low", "cat_high"} :
                    Cardinality({i \in DOMAIN pipe.transformers :
                                    pipe.transformers[i].name = g})
                       = IF GroupOf(g) = {} THEN 0 ELSE 1
              /\ \A i \in DOMAIN pipe.transformers :
                    pipe.transformers[i].columns = GroupOf(pipe.transformers[i].name)

\* a table with an all-null column and an identifier-like column that has
\* no other usable column has been refused
C12_Witness ==
    /\ pipe.pc = "raised"
    /\ \E c \in DOMAIN pipe.X : pipe.X[c].nonnull = 0
    /\ \E c \in DOMAIN pipe.X :
          pipe.X[c].nonnull > 0 /\ pipe.X[c].unique = pipe.X[c].nonnull
             /\ pipe.X[c].numeric = 0

\* the columns build_pipeline gave to the transformer of that name
GroupColumns(name) ==
    UNION {pipe.transformers[i].columns :
              i \in {k \in DOMAIN pipe.transformers : pipe.transformers[k].name = name}}

\* the columns that are not all null and that the first loop did not make
\* numeric
Categorical ==
    {c \in DOMAIN pipe.X :
        /\ pipe.X[c].nonnull > 0
        /\ 5 * pipe.X[c].numeric <= 4 * pipe.X[c].nonnull}

\* every column is in exactly one of the four groups
OneGroupEach ==
    LET groups == <<GroupColumns("num"), GroupColumns("cat_low"),
                    GroupColumns("cat_high"), pipe.removed_features>>
    IN /\ UNION {groups[i] : i \in 1..4} = DOMAIN pipe.X
       /\ \A i, j \in 1..4 : i # j => groups[i] \cap groups[j] = {}

\* C24 as stated: every column is in exactly one group, and a categorical
\* column is removed exactly if its unique count exceeds 1000 or equals the
\* row count of the table.
C24_RemovedByRowCount ==
    (pipe.pc \in {"raised", "returned"}) =>
        /\ OneGroupEach
        /\ \A c \in Categorical :
              c \in pipe.removed_features
                 <=> (pipe.X[c].unique > 1000 \/ pipe.X[c].unique = pipe.n_rows)

\* C24: every input column is in exactly one of the groups numeric,
\* low-cardinality, high-cardinality and removed; a categorical column is
\* removed exactly if its unique count exceeds 1000 or equals the number of
\* its non-null values; otherwise it is low-cardinality exactly if its
\* unique count is at most 50 and at most half the number of its non-null
\* values, and high-cardinality if not.
C24_RemovedByNonNullCount ==
    (pipe.pc \in {"raised", "returned"}) =>
        /\ OneGroupEach
        /\ \A c \in Categorical :
              LET u == pipe.X[c].unique
                  n == pipe.X[c].nonnull
                  id == u > 1000 \/ u = n
                  low == u <= 50 /\ 2 * u <= n
              IN /\ c \in pipe.removed_features <=> id
                 /\ c \in GroupColumns("cat_low") <=> (~id /\ low)
                 /\ c \in GroupColumns("cat_high") <=> (~id /\ ~low)
                 /\ c \notin GroupColumns("num")

\* in a table of 11 rows a text column with 10 values, all different, is
\* removed next to a low-cardinality column
C24_Witness ==
    /\ pipe.pc = "returned"
    /\ pipe.n_rows = FEW_SAMPLES + 1
    /\ \E c \in pipe.removed_features :
          /\ pipe.X[c].numeric = 0
          /\ pipe.X[c].unique = FEW_SAMPLES
          /\ pipe.X[c].nonnull = FEW_SAMPLES
    /\ GroupColumns("cat_low") # {}

(***************************************************************************)
(* SpecJobs: two POST /train/{dataset_id} requests of one user, each       *)
(* running train_user_dataset -> train_model in its own worker.  The       *)
(* workers share what the code reads and writes outside its own objects:   *)
(* the temporary directory of their host, the "models" storage bucket and  *)
(* the "models" table.  A step is one call of train_model that touches     *)
(* that shared state or that can raise.                                    *)
(***************************************************************************)
MaxClock == 1

Requests == {"r1", "r2"}
Datasets == {"d1", "d2"}
Hosts == {"h1", "h2"}
ModelNames == {"m1", "m2"}

\* what a failure is, in the error taxonomy
BadInput == {"validation", "preprocessing"}
Internal == {"training", "infrastructure"}

NoBytes == [by |-> "", whole |-> FALSE]
NoName == <<"", 0>>

\* joblib.dump(bundle, path) of request r, once complete
Bundle(r) == [by |-> r, whole |-> TRUE]

\* os.path.join(tempfile.gettempdir(), f"model_{dataset_id}.pkl")
TmpPath(r, job) == <<job.host, job.dataset_id>>

\* f"{user_id}/models/model_{dataset_id}_{int(time.time())}.pkl"
ModelFilename(job, clock) == <<"models", job.dataset_id, clock>>

\* f"{user_id}/predictions/pred_{dataset_id}_{int(time.time())}.json"
PredictionsFilename(job, clock) == <<"predictions", job.dataset_id, clock>>

\* the except clauses that close train_model passing the exception on
TrainModelExcept_passThrough(exc) == exc

\* the except clauses that close train_model: what leaves it for an
\* exception raised inside it
TrainModelExcept(exc) ==
    IF exc = "DataPreprocessingError"
    THEN "ModelTrainingError"
    ELSE "ModelTrainingError"

\* the except clauses of train_user_dataset: the HTTP status of an exception
RouteStatus(exc) ==
    CASE exc = "DataPreprocessingError" -> 400
      [] exc = "ModelTrainingError" -> 500
      [] OTHER -> 500

\* the rows of the models table a query for this user and name returns
RowFound(models, name) == \E row \in models : row.model_name = name

\* check_model_name_exists: a failed query counts as "does not exist"
NameExists(models, name, query_raises) ==
    IF query_raises THEN FALSE ELSE RowFound(models, name)

\* generate_unique_model_name against the table as it is: the first of the
\* base name, the timestamped name and the counter names that the check
\* does not find (two requests leave at most two rows, so the first counter
\* name is always free)
GeneratedName(models, base, base_query_raises, stamp_query_raises) ==
    IF ~NameExists(models, <<base, 0>>, base_query_raises) THEN <<base, 0>>
    ELSE IF ~NameExists(models, <<base, 1>>, stamp_query_raises) THEN <<base, 1>>
    ELSE <<base, 2>>

NewJob(dataset_id, host, user_input_name, auto_generate_name) ==
    [pc |-> "received", dataset_id |-> dataset_id, host |-> host,
     user_input_name |-> user_input_name,
     auto_generate_name |-> auto_generate_name,
     name_exists |-> "None", model_name |-> NoName,
     failure |-> "", origin |-> "", raised |-> "", boundary_error |-> "",
     status |-> 0,
     model_bytes |-> NoBytes, uploaded |-> NoBytes, log |-> <<>>]

\* an exception of type exc raised inside train_model travels through its
\* except clauses to the route, which answers
Fail(job, failure, exc) ==
    [job EXCEPT !.pc = "responded", !.failure = failure, !.origin = exc,
                !.raised = exc,
                !.boundary_error = TrainModelExcept(exc),
                !.status = RouteStatus(TrainModelExcept(exc))]

\* train_model lines 474-477 continuing whatever the check answered
AfterNameCheck_ignoreExists(job, exists) ==
    [job EXCEPT !.pc = "named", !.name_exists = IF exists THEN "True" ELSE "False",
                !.model_name = <<job.user_input_name, 0>>]

\* train_model lines 474-477: a supplied name that exists raises
\* ModelTrainingError, else it becomes the model name
AfterNameCheck(job, exists) ==
    IF exists
    THEN [Fail(job, "training", "ModelTrainingError") EXCEPT !.name_exists = "True"]
    ELSE [job EXCEPT !.pc = "named", !.name_exists = "False",
                     !.model_name = <<job.user_input_name, 0>>]

\* the models table refusing a row whose name it already holds
InsertAccepted_uniqueNames(models, row) == ~RowFound(models, row.model_name)

\* table("models").insert(db_data): the call carries no condition on the
\* rows already there
InsertAccepted(models, row) == TRUE

\* the step after which supabase.table("models").insert runs
InsertEnabled_afterBundle(job) ==
    job.pc \in {"bundle_uploaded", "predictions_uploaded"}
InsertEnabled(job) == job.pc = "predictions_uploaded"

\* db_data of a run
Row(r, job) ==
    [request |-> r, dataset_id |-> job.dataset_id, model_name |-> job.model_name]

InitJobs ==
    /\ \E d \in Datasets, h \in Hosts, name \in ModelNames, auto \in BOOLEAN :
          jobs = [r \in Requests |->
                     IF r = "r1" THEN NewJob("d1", "h1", "m1", FALSE)
                                 ELSE NewJob(d, h, name, auto)]
    /\ world = [tmp |-> [p \in Hosts \X Datasets |-> NoBytes],
                storage |-> <<>>, models |-> {}, clock |-> 0]
    /\ enc = IdleEnc
    /\ call = NoCall
    /\ evalres = NoMetrics
    /\ df = IdleDf
    /\ vres = IdleVres
    /\ run = IdleRun
    /\ pipe = IdlePipe
    /\ gen = IdleGen

\* train_user_dataset lines 114-121: a supplied name that exists is
\* answered 409 before train_model is called
RouteNameCheck(r) ==
    /\ jobs[r].pc = "received"
    /\ \E query_raises \in BOOLEAN :
          jobs' = [jobs EXCEPT ![r] =
                      IF /\ ~jobs[r].auto_generate_name
                         /\ NameExists(world.models, <<jobs[r].user_input_name, 0>>,
                                       query_raises)
                      THEN [@ EXCEPT !.pc = "responded", !.failure = "conflict",
                                     !.boundary_error = "HTTPException",
                                     !.status = 409]
                      ELSE [@ EXCEPT !.pc = "started"]]
    /\ UNCHANGED <<enc, call, evalres, df, vres, run, pipe, gen, world>>

\* train_model steps 1-2: dataset metadata, then await preprocess_dataset.
\* Inside preprocess_data the validator raises ValueError and the other
\* steps DataPreprocessingError or a library exception; the download in
\* preprocess_dataset raises a library exception
PreprocessDataset(r) ==
    /\ jobs[r].pc = "started"
    /\ \/ jobs' = [jobs EXCEPT ![r].pc = "preprocessed"]
       \/ \E exc \in {"DataPreprocessingError", "Exception"} :
             jobs' = [jobs EXCEPT ![r] =
                         [Fail(@, "preprocessing",
                               PreprocessDatasetExcept(PreprocessDataExcept(exc)))
                            EXCEPT !.origin = exc]]
       \/ jobs' = [jobs EXCEPT ![r] =
                      [Fail(@, "validation",
                            PreprocessDatasetExcept(PreprocessDataExcept("ValueError")))
                         EXCEPT !.origin = "ValueError"]]
       \/ jobs' = [jobs EXCEPT ![r] =
                      [Fail(@, "infrastructure", PreprocessDatasetExcept("Exception"))
                         EXCEPT !.origin = "Exception"]]
       \/ jobs' = [jobs EXCEPT ![r] = Fail(@, "infrastructure", "ModelTrainingError")]
    /\ UNCHANGED <<enc, call, evalres, df, vres, run, pipe, gen, world>>

\* train_model steps 3-4: problem type, model selection or trainer.train
TrainStep(r) ==
    /\ jobs[r].pc = "preprocessed"
    /\ \/ jobs' = [jobs EXCEPT ![r].pc = "trained"]
       \/ \E exc \in {"ModelTrainingError", "Exception"} :
             jobs' = [jobs EXCEPT ![r] = Fail(@, "training", exc)]
    /\ UNCHANGED <<enc, call, evalres, df, vres, run, pipe, gen, world>>

\* train_model step 5: the model name, generated or checked
ChooseModelName(r) ==
    /\ jobs[r].pc = "trained"
    /\ \E query_raises \in BOOLEAN, stamp_query_raises \in BOOLEAN :
          jobs' = [jobs EXCEPT ![r] =
                     IF jobs[r].auto_generate_name
                     THEN [@ EXCEPT !.pc = "named",
                                    !.model_name =
                                        GeneratedName(world.models,
                                                      jobs[r].user_input_name,
                                                      query_raises,
                                                      stamp_query_raises)]
                     ELSE AfterNameCheck(@, NameExists(world.models,
                                                       <<jobs[r].user_input_name, 0>>,
                                                       query_raises))]
    /\ UNCHANGED <<enc, call, evalres, df, vres, run, pipe, gen, world>>

\* trainer.save_model(tmp_path, preprocessor): joblib.dump opens the file
\* for writing, which truncates it
SaveModelOpen(r) ==
    /\ jobs[r].pc = "named"
    /\ \/ /\ jobs' = [jobs EXCEPT ![r].pc = "dumping"]
          /\ world' = [world EXCEPT !.tmp[TmpPath(r, jobs[r])] =
                                        [by |-> r, whole |-> FALSE]]
       \/ /\ jobs' = [jobs EXCEPT ![r] = Fail(@, "infrastructure", "Exception")]
          /\ UNCHANGED world
    /\ UNCHANGED <<enc, call, evalres, df, vres, run, pipe, gen>>

\* joblib.dump finishes: the file holds this bundle unless another writer
\* opened the same path meanwhile
SaveModelClose(r) ==
    /\ jobs[r].pc = "dumping"
    /\ jobs' = [jobs EXCEPT ![r].pc = "saved"]
    /\ world' = [world EXCEPT !.tmp[TmpPath(r, jobs[r])] =
                    IF @.by = r THEN Bundle(r) ELSE [by |-> @.by, whole |-> FALSE]]
    /\ UNCHANGED <<enc, call, evalres, df, vres, run, pipe, gen>>

\* with open(tmp_path, "rb") as f: model_bytes = f.read()
ReadBundle(r) ==
    /\ jobs[r].pc = "saved"
    /\ jobs' = [jobs EXCEPT ![r].pc = "read",
                            ![r].model_bytes = world.tmp[TmpPath(r, jobs[r])]]
    /\ UNCHANGED <<enc, call, evalres, df, vres, run, pipe, gen, world>>

\* storage.from_("models").upload(filename, model_bytes, upsert)
UploadBundle(r) ==
    /\ jobs[r].pc = "read"
    /\ \/ /\ jobs' = [jobs EXCEPT ![r].pc = "bundle_uploaded",
                                  ![r].uploaded = jobs[r].model_bytes,
                                  ![r].log = Append(@, "upload_bundle")]
          /\ world' = [world EXCEPT !.storage =
                          (ModelFilename(jobs[r], world.clock) :> jobs[r].model_bytes) @@ @]
       \/ /\ jobs' = [jobs EXCEPT ![r] = Fail(@, "infrastructure", "Exception")]
          /\ UNCHANGED world
    /\ UNCHANGED <<enc, call, evalres, df, vres, run, pipe, gen>>

\* storage.from_("models").upload(predictions_filename, ...)
UploadPredictions(r) ==
    /\ jobs[r].pc = "bundle_uploaded"
    /\ \/ /\ jobs' = [jobs EXCEPT ![r].pc = "predictions_uploaded",
                                  ![r].log = Append(@, "upload_predictions")]
          /\ world' = [world EXCEPT !.storage =
                          (PredictionsFilename(jobs[r], world.clock) :> Bundle(r)) @@ @]
       \/ /\ jobs' = [jobs EXCEPT ![r] = Fail(@, "infrastructure", "Exception")]
          /\ UNCHANGED world
    /\ UNCHANGED <<enc, call, evalres, df, vres, run, pipe, gen>>

\* supabase.table("models").insert(db_data).execute() adds the row
InsertModelOk(r) ==
    /\ InsertEnabled(jobs[r])
    /\ InsertAccepted(world.models, Row(r, jobs[r]))
    /\ jobs' = [jobs EXCEPT ![r].pc = "inserted",
                            ![r].log = Append(@, "insert")]
    /\ world' = [world EXCEPT !.models = @ \cup {Row(r, jobs[r])}]
    /\ UNCHANGED <<enc, call, evalres, df, vres, run, pipe, gen>>

\* the insert raises: no row
InsertModelFails(r) ==
    /\ InsertEnabled(jobs[r])
    /\ jobs' = [jobs EXCEPT ![r] = Fail(@, "infrastructure", "Exception")]
    /\ UNCHANGED <<enc, call, evalres, df, vres, run, pipe, gen, world>>

InsertModel(r) == InsertModelOk(r) \/ InsertModelFails(r)

\* train_model returns and the route answers with the result
Respond(r) ==
    /\ jobs[r].pc = "inserted"
    /\ jobs' = [jobs EXCEPT ![r].pc = "responded", ![r].status = 200]
    /\ UNCHANGED <<enc, call, evalres, df, vres, run, pipe, gen, world>>

\* int(time.time()) moves on
Tick ==
    /\ world.clock < MaxClock
    /\ world' = [world EXCEPT !.clock = @ + 1]
    /\ UNCHANGED <<enc, call, evalres, df, vres, run, pipe, gen, jobs>>

NextJobs ==
    \/ \E r \in Requests : RouteNameCheck(r)
    \/ \E r \in Requests : PreprocessDataset(r)
    \/ \E r \in Requests : TrainStep(r)
    \/ \E r \in Requests : ChooseModelName(r)
    \/ \E r \in Requests : SaveModelOpen(r)
    \/ \E r \in Requests : SaveModelClose(r)
    \/ \E r \in Requests : ReadBundle(r)
    \/ \E r \in Requests : UploadBundle(r)
    \/ \E r \in Requests : UploadPredictions(r)
    \/ \E r \in Requests : InsertModel(r)
    \/ \E r \in Requests : Respond(r)
    \/ Tick

SpecJobs == InitJobs /\ [][NextJobs]_vars

(***************************************************************************)
(* Claims about the orchestrator                                           *)
(***************************************************************************)
\* C13: a validation or preprocessing failure raised during train_model
\* reaches the request boundary as its own typed error, not wrapped as a
\* training error, and is answered with HTTP 400; a training or
\* infrastructure failure is answered with HTTP 500.
C13_TypedErrorsReachBoundary ==
    \A r \in Requests :
        (jobs[r].pc = "responded" /\ jobs[r].failure # "") =>
            /\ (jobs[r].failure \in BadInput) =>
                  /\ jobs[r].boundary_error = "DataPreprocessingError"
                  /\ jobs[r].status = 400
            /\ (jobs[r].failure \in Internal) => jobs[r].status = 500

\* C16: the models row of a run is inserted only after its bundle upload and
\* its predictions upload have completed, in that order, and a run in which
\* an upload failed inserts no row.
C16_InsertAfterUploads ==
    \A r \in Requests :
        /\ (\E row \in world.models : row.request = r)
              <=> (\E i \in DOMAIN jobs[r].log : jobs[r].log[i] = "insert")
        /\ (\E i \in DOMAIN jobs[r].log : jobs[r].log[i] = "insert") =>
              jobs[r].log = <<"upload_bundle", "upload_predictions", "insert">>
        /\ (jobs[r].failure # "" /\ Len(jobs[r].log) < 3) =>
              \A row \in world.models : row.request # r

\* one run has inserted its row after both uploads, the other failed at its
\* predictions upload and inserted nothing
C16_Witness ==
    /\ jobs["r1"].log = <<"upload_bundle", "upload_predictions", "insert">>
    /\ \E row \in world.models : row.request = "r1" /\ row.dataset_id = "d1"
    /\ jobs["r2"].log = <<"upload_bundle">>
    /\ jobs["r2"].failure = "infrastructure"
    /\ jobs["r2"].pc = "responded"

\* C17: in every interleaving of two concurrent runs, two runs on the same
\* dataset_id included, the bundle bytes a run uploads are the bundle that
\* run serialized.
C17_UploadsOwnBundle ==
    \A r \in Requests :
        (jobs[r].uploaded # NoBytes) => jobs[r].uploaded = Bundle(r)

\* C21: the name check and the insert are two separate steps.  A run with a
\* supplied name gets past the check only on the answer 'does not exist',
\* and once it is at the insert the row is inserted whatever rows the table
\* holds by then, a row with the same name included; so two concurrent runs
\* with one name can both insert it.
C21_CheckThenInsert ==
    \A r \in Requests :
        /\ (~jobs[r].auto_generate_name /\ jobs[r].model_name # NoName) =>
              /\ jobs[r].name_exists = "False"
              /\ jobs[r].model_name = <<jobs[r].user_input_name, 0>>
        /\ InsertEnabled(jobs[r]) => ENABLED InsertModelOk(r)
        /\ (\E row \in world.models : row.request = r) =>
              Row(r, jobs[r]) \in world.models

\* both runs asked for the name m1, both were told it does not exist, and
\* the table holds two rows named m1
C21_Witness ==
    /\ \A r \in Requests :
          /\ ~jobs[r].auto_generate_name
          /\ jobs[r].user_input_name = "m1"
          /\ jobs[r].name_exists = "False"
          /\ Row(r, jobs[r]) \in world.models
    /\ Cardinality({row \in world.models : row.model_name = <<"m1", 0>>}) = 2

\* C29: whatever fails inside train_model, the exception that leaves it is
\* ModelTrainingError; a validator failure (ValueError) inside
\* preprocess_data has first been re-raised as DataPreprocessingError.
C29_OnlyModelTrainingErrorEscapes ==
    \A r \in Requests :
        (jobs[r].pc = "responded" /\ jobs[r].failure \in BadInput \cup Internal) =>
            /\ jobs[r].boundary_error = "ModelTrainingError"
            /\ (jobs[r].failure = "validation") =>
                  /\ jobs[r].origin = "ValueError"
                  /\ jobs[r].raised = "DataPreprocessingError"

\* a validator failure has left train_model as ModelTrainingError
C29_Witness ==
    /\ jobs["r1"].pc = "responded"
    /\ jobs["r1"].failure = "validation"
    /\ jobs["r1"].origin = "ValueError"
    /\ jobs["r1"].raised = "DataPreprocessingError"
    /\ jobs["r1"].boundary_error = "ModelTrainingError"
    /\ jobs["r2"].failure = "infrastructure"
    /\ jobs["r2"].boundary_error = "ModelTrainingError"

\* C30: when train_model, given a supplied name with auto-generation off,
\* is told by the existence check that the name exists, the run fails with
\* ModelTrainingError and has uploaded no bundle, uploaded no predictions
\* and inserted no row.
C30_ExistingNameLeavesNoTrace ==
    \A r \in Requests :
        (~jobs[r].auto_generate_name /\ jobs[r].name_exists = "True") =>
            /\ jobs[r].pc = "responded"
            /\ jobs[r].raised = "ModelTrainingError"
            /\ jobs[r].boundary_error = "ModelTrainingError"
            /\ jobs[r].log = <<>>
            /\ jobs[r].uploaded = NoBytes
            /\ jobs[r].model_bytes = NoBytes
            /\ \A row \in world.models : row.request # r
            /\ \A p \in DOMAIN world.tmp : world.tmp[p].by # r

\* the second run passed the route's check, the first inserted the name
\* meanwhile, and train_model's own check refused the second
C30_Witness ==
    /\ jobs["r2"].name_exists = "True"
    /\ ~jobs["r2"].auto_generate_name
    /\ jobs["r2"].pc = "responded"
    /\ jobs["r2"].status = 500
    /\ world.models = {Row("r1", jobs["r1"])}
    /\ jobs["r1"].model_name = <<"m1", 0>>

(***************************************************************************)
(* SpecName: one call of generate_unique_model_name.  A name is the        *)
(* sequence of its characters; every existence check is one query of the   *)
(* models table, whose answer the caller does not control.                 *)
(* SpecNameFair adds that the call keeps running: each query returns or    *)
(* raises, and the coroutine is resumed.                                   *)
(***************************************************************************)
MaxNameLen == 2

MAX_NAME_ATTEMPTS == 100

\* a letter, a digit, the two characters kept as they are, and three that
\* are replaced (str.isalnum is true of letters and digits of any script)
Chars == {"a", "é", "7", "_", "-", " ", "/"}
DigitChars == <<"0", "1", "2", "3", "4", "5", "6", "7", "8", "9">>

IsAlnum(c) == c \in {"a", "é"} \/ \E i \in DOMAIN DigitChars : DigitChars[i] = c

\* str(counter)
RECURSIVE Str(_)
Str(k) ==
    IF k < 10
    THEN <<DigitChars[k + 1]>>
    ELSE Str(k \div 10) \o <<DigitChars[(k % 10) + 1]>>

NameInputs == UNION {[1..n -> Chars] : n \in 0..MaxNameLen}

\* target_col is read only when no base name is given (line 575)
TargetCols(base_name) ==
    IF base_name = <<>> THEN NameInputs \ {<<>>} ELSE {<<"a">>}

\* datetime.now().strftime('%Y%m%d_%H%M%S'), shortened: digits around a '_'
Timestamps == {<<"2", "0", "_", "1", "7">>}

\* "".join(c if c.isalnum() or c in ['_', '-'] else '_' for c in base_name)
Sanitize_keepAll(name) == name
Sanitize(name) ==
    [i \in DOMAIN name |->
        IF IsAlnum(name[i]) \/ name[i] \in {"_", "-"} THEN name[i] ELSE "_"]

\* base_name after lines 575-578
BaseName(base_name, model_type, target_col) ==
    Sanitize(IF base_name = <<>>
             THEN model_type \o <<"_">> \o target_col
             ELSE base_name)

\* the candidates in the order tried: 0 the base name, 1 the timestamped
\* name, 1 + counter the name with the counter suffix
Candidate(base, timestamp, i) ==
    CASE i = 0 -> base
      [] i = 1 -> base \o <<"_">> \o timestamp
      [] OTHER -> base \o <<"_">> \o timestamp \o <<"_">> \o Str(i - 1)

\* check_model_name_exists: a failed query counts as "does not exist"
CheckModelNameExists(row_found, query_raises) ==
    IF query_raises THEN FALSE ELSE row_found

\* if counter > 100: raise
Exhausted_oneMore(counter) == counter > MAX_NAME_ATTEMPTS + 1
Exhausted(counter) == counter > MAX_NAME_ATTEMPTS

InitName ==
    /\ \E base_name \in NameInputs, timestamp \in Timestamps :
       \E target_col \in TargetCols(base_name) :
          gen = [pc |-> "called", base_name |-> base_name,
                 model_type |-> <<"a">>, target_col |-> target_col,
                 timestamp |-> timestamp, base |-> <<>>, counter |-> 0,
                 checked |-> <<>>, answers |-> <<>>, name |-> <<>>, error |-> ""]
    /\ enc = IdleEnc
    /\ call = NoCall
    /\ evalres = NoMetrics
    /\ df = IdleDf
    /\ vres = IdleVres
    /\ run = IdleRun
    /\ pipe = IdlePipe
    /\ jobs = IdleJobs
    /\ world = IdleWorld

\* lines 575-581: default and sanitize the base name, then check it
CheckBaseName ==
    /\ gen.pc = "called"
    /\ \E row_found \in BOOLEAN, query_raises \in BOOLEAN :
          LET base == BaseName(gen.base_name, gen.model_type, gen.target_col)
              exists == CheckModelNameExists(row_found, query_raises)
          IN gen' = [gen EXCEPT !.base = base,
                                !.checked = Append(@, base),
                                !.answers = Append(@, exists),
                                !.pc = IF exists THEN "base_taken" ELSE "returned",
                                !.name = IF exists THEN <<>> ELSE base]
    /\ UNCHANGED <<enc, call, evalres, df, vres, run, pipe, jobs, world>>

\* lines 583-589: the timestamped name; counter = 1 when it is taken too
CheckNameWithTimestamp ==
    /\ gen.pc = "base_taken"
    /\ \E row_found \in BOOLEAN, query_raises \in BOOLEAN :
          LET name_with_timestamp == Candidate(gen.base, gen.timestamp, 1)
              exists == CheckModelNameExists(row_found, query_raises)
          IN gen' = [gen EXCEPT !.checked = Append(@, name_with_timestamp),
                                !.answers = Append(@, exists),
                                !.pc = IF exists THEN "counting" ELSE "returned",
                                !.counter = IF exists THEN 1 ELSE 0,
                                !.name = IF exists THEN <<>> ELSE name_with_timestamp]
    /\ UNCHANGED <<enc, call, evalres, df, vres, run, pipe, jobs, world>>

\* lines 590-596: one iteration of the while loop
CheckNameWithCounter ==
    /\ gen.pc = "counting"
    /\ \E row_found \in BOOLEAN, query_raises \in BOOLEAN :
          LET unique_name == Candidate(gen.base, gen.timestamp, 1 + gen.counter)
              exists == CheckModelNameExists(row_found, query_raises)
          IN gen' = [gen EXCEPT
                        !.checked = Append(@, unique_name),
                        !.answers = Append(@, exists),
                        !.counter = IF exists THEN @ + 1 ELSE @,
                        !.name = IF exists THEN <<>> ELSE unique_name,
                        !.pc = IF ~exists THEN "returned"
                               ELSE IF Exhausted(gen.counter + 1) THEN "raised"
                               ELSE "counting",
                        !.error = IF exists /\ Exhausted(gen.counter + 1)
                                  THEN "ModelTrainingError" ELSE ""]
    /\ UNCHANGED <<enc, call, evalres, df, vres, run, pipe, jobs, world>>

NextName ==
    \/ CheckBaseName
    \/ CheckNameWithTimestamp
    \/ CheckNameWithCounter

SpecName == InitName /\ [][NextName]_vars

SpecNameFair == SpecName /\ WF_vars(NextName)

(***************************************************************************)
(* Claims about generate_unique_model_name                                 *)
(***************************************************************************)
\* the name the call starts from, written out from its arguments
ExpectedBase ==
    LET raw == IF gen.base_name = <<>>
               THEN gen.model_type \o <<"_">> \o gen.target_col
               ELSE gen.base_name
    IN [i \in DOMAIN raw |->
           IF raw[i] \in {"a", "é", "7", "_", "-"} THEN raw[i] ELSE "_"]

\* the i-th name of the order base, base_timestamp, base_timestamp_1, ...
ExpectedCandidate(i) ==
    IF i = 1 THEN ExpectedBase
    ELSE IF i = 2 THEN ExpectedBase \o <<"_">> \o gen.timestamp
    ELSE ExpectedBase \o <<"_">> \o gen.timestamp \o <<"_">> \o Str(i - 2)

\* C14: a name returned by generate_unique_model_name consists of
\* alphanumeric characters, '_' and '-' only, and it is the first candidate
\* of the order sanitized base, base_timestamp, base_timestamp_1,
\* base_timestamp_2, ... whose existence check answered false: the names
\* checked are the candidates in that order, every check before the last
\* answered true, and the last one, of the name returned, answered false.
C14_FirstFreeSafeName ==
    (gen.pc = "returned") =>
        /\ \A i \in DOMAIN gen.name :
              IsAlnum(gen.name[i]) \/ gen.name[i] \in {"_", "-"}
        /\ gen.name # <<>>
        /\ \A i \in DOMAIN gen.checked : gen.checked[i] = ExpectedCandidate(i)
        /\ \A i \in 1..(Len(gen.answers) - 1) : gen.answers[i]
        /\ ~gen.answers[Len(gen.answers)]
        /\ gen.name = gen.checked[Len(gen.checked)]

\* a base name with a space and a slash was taken, as was the timestamped
\* name and the first counter name, and the second counter name is returned
C14_Witness ==
    /\ gen.pc = "returned"
    /\ gen.base_name = <<" ", "/">>
    /\ gen.answers = <<TRUE, TRUE, TRUE, FALSE>>
    /\ gen.name = <<"_", "_", "_", "2", "0", "_", "1", "7", "_", "2">>

\* C15: generate_unique_model_name always terminates, by returning a name
\* or by raising; when the base name, the timestamped name and every
\* counter-suffixed name exist it raises ModelTrainingError after exactly
\* 100 counter-suffixed names were checked, and it never checks more.
C15_Terminates ==
    /\ <>(gen.pc \in {"returned", "raised"})
    /\ [](/\ Len(gen.checked) <= 102
          /\ (gen.pc = "raised") =>
                /\ gen.error = "ModelTrainingError"
                /\ Len(gen.checked) = 102
                /\ \A i \in DOMAIN gen.answers : gen.answers[i]
          /\ (Len(gen.checked) = 102 /\ gen.answers[102]) => gen.pc = "raised")

\* all 102 candidates existed and the call has raised
C15_Witness ==
    /\ gen.pc = "raised"
    /\ gen.counter = 101
    /\ Len(gen.checked) = 102
    /\ gen.checked[102] = gen.base \o <<"_">> \o gen.timestamp \o <<"_", "1", "0", "0">>
====
